---- MODULE Spec2Model ----
(***************************************************************************)
(* ata_id: one probe of a block device, as the state machine of main() in  *)
(* src/src/udev/ata_id/ata_id.c.  The device and the kernel are the        *)
(* environment: every ioctl() is a step whose result (return value, errno, *)
(* status fields, sense bytes, transferred data) is chosen from small sets;*)
(* what the command function and disk_identify do with that result belongs *)
(* to the same step.                                                       *)
(***************************************************************************)
EXTENDS Integers, Sequences, FiniteSets, TLC

VARIABLES
    pc,               \* position of main(): the next call it makes
    bigEndian,        \* byte order of the host the program was built for
    export,           \* main: int export
    exit_code,        \* -1 while running, else the value main returned
    usage,            \* TRUE once the --help text was printed
    out,              \* the fact lines printed so far
    identify,         \* main: identify.byte[512]
    id,               \* main: struct hd_driveid id, as its 512 bytes
    is_packet_device, \* main: int is_packet_device
    inquiry_buf,      \* disk_identify: uint8_t inquiry_buf[36]
    sense,            \* the running command's uint8_t sense[32]
    io_v4,            \* <<device_status, transport_status, driver_status>> of io_v4
    io_hdr,           \* <<status, host_status, driver_status>> of io_hdr
    errno,            \* errno
    node,             \* main: whether argv[optind] names a device node
    fd,               \* main: int fd
    trace,            \* history: every ioctl made and every return of a
                      \* command function, in order
    di_ret,           \* history: <<r>> once disk_identify returned r, <<>> before
    source            \* history: where id was filled from ("none" before)

vars == <<pc, bigEndian, export, exit_code, usage, out, identify, id,
          is_packet_device, inquiry_buf, sense, io_v4, io_hdr, errno, node,
          fd, trace, di_ret, source>>

(***************************************************************************)
(* Numbers of the program.                                                 *)
(***************************************************************************)
EINVAL == 22
EIO == 5
\* an errno other than EINVAL that a failed SG_IO may report (ENOTTY)
OtherErrnos == {25}

IDENTIFY_LEN == 512
INQUIRY_LEN == 36
SENSE_LEN == 32

\* the device may answer with the identify blocks Block(0) .. Block(MaxBlock)
MaxBlock == 3

\* the legacy call may return the data of Block(0) .. Block(MaxLegacyBlock)
MaxLegacyBlock == 1

\* the decoder alone is run on Block(1) .. Block(MaxOverridden) with words
\* replaced
MaxOverridden == 1

\* and on every RotationStride-th value of the rotation rate word
RotationStride == 509

(***************************************************************************)
(* Bytes, words and bits.                                                  *)
(***************************************************************************)
Zero(n) == [i \in 0..(n - 1) |-> 0]

Pow2(n) == 2 ^ n

\* (x >> n) & 1
Bit(x, n) == (x \div Pow2(n)) % 2 = 1

\* IN_SET(x, ...) of the two-element uses in the source
IN_SET(x, S) == x \in S

\* what an ioctl transferred: the first d.n bytes of d.bytes land in the
\* buffer, the rest of the buffer keeps what it held
Transfer(buf, d) == [i \in DOMAIN buf |-> IF i < d.n THEN d.bytes[i] ELSE buf[i]]

(***************************************************************************)
(* The device's answers (inputs of the model).                             *)
(***************************************************************************)
\* first byte of the standard INQUIRY data: qualifier (3 bits), type (5 bits)
PeripheralBytes == {0, 5, 20, 7, 37}

InquiryData(b) == [Zero(INQUIRY_LEN) EXCEPT ![0] = b, ![4] = 31]

\* a full INQUIRY transfer, or a command that completed without data
InquiryTransfers ==
    {[n |-> INQUIRY_LEN, bytes |-> InquiryData(b)] : b \in PeripheralBytes}
        \cup {[n |-> 0, bytes |-> Zero(INQUIRY_LEN)]}

\* inquiry_buf has no initializer: it holds whatever the stack held
StackGarbage == {[i \in 0..(INQUIRY_LEN - 1) |-> g] : g \in {0, 165}}

StatusSamples == {<<0, 0, 0>>, <<2, 0, 0>>, <<0, 7, 0>>, <<0, 0, 8>>}

\* status fields a request structure may hold when its ioctl failed
FailedStatusSamples == {<<0, 0, 0>>, <<2, 0, 0>>}

ZeroSense == Zero(SENSE_LEN)

\* descriptor format, ATA status return descriptor
DescriptorSense == [ZeroSense EXCEPT ![0] = 114, ![8] = 9, ![9] = 12]

\* fixed format, ATA PASS THROUGH INFORMATION AVAILABLE
FixedSense == [ZeroSense EXCEPT ![0] = 112, ![12] = 0, ![13] = 29]

SenseSamples ==
    { ZeroSense, DescriptorSense, FixedSense,
      [DescriptorSense EXCEPT ![9] = 0],
      [FixedSense EXCEPT ![13] = 4],
      [DescriptorSense EXCEPT ![0] = 112] }

InquirySenseSamples == {ZeroSense, DescriptorSense}

SgErrnos == {EINVAL} \cup OtherErrnos

\* the results one SG_IO ioctl can have
SgResults(statuses, senses, transfers, failed) ==
    {[ret |-> 0, errno |-> 0, status |-> st, sense |-> sn, data |-> d] :
        st \in statuses, sn \in senses, d \in transfers}
    \cup
    {[ret |-> -1, errno |-> e, status |-> st, sense |-> ZeroSense,
      data |-> [n |-> 0, bytes |-> Zero(INQUIRY_LEN)]] :
        e \in SgErrnos, st \in failed}

(***************************************************************************)
(* Transport: the three command functions.                                 *)
(***************************************************************************)
\* sg v3 tried after any failure of sg v4
try_version_3_any_failure(ret, en) == ret # 0

\* "could be that the driver doesn't do version 4, try version 3"
try_version_3(ret, en) == ret # 0 /\ en = EINVAL

\* only the first status field tested
status_ok_first_only(st) == st[1] = 0

\* "even if the ioctl succeeds, we need to check the return value"
status_ok(st) == st[1] = 0 /\ st[2] = 0 /\ st[3] = 0

sense_descriptor_ok(s) == s[0] = 114 /\ s[8] = 9 /\ s[9] = 12

sense_fixed_ok(s) == s[0] = 112 /\ s[12] = 0 /\ s[13] = 29

\* the sense check of disk_identify_command
identify_sense_ok(s) == sense_descriptor_ok(s) \/ sense_fixed_ok(s)

\* the sense check of disk_identify_command used for the packet command too
identify_packet_sense_ok_fixed(s) == sense_descriptor_ok(s) \/ sense_fixed_ok(s)

\* the sense check of disk_identify_packet_device_command
identify_packet_sense_ok(s) == sense_descriptor_ok(s)

\* the record kept of an ioctl: gen is 4 (sg v4), 3 (sg v3) or 0 (not SG_IO)
Call(cmd, gen, r) ==
    [kind |-> "ioctl", cmd |-> cmd, gen |-> gen, ret |-> r.ret,
     errno |-> IF r.ret = 0 THEN 0 ELSE r.errno]

\* the record kept of the return of a command function: errno is errno as
\* the function leaves it
Return(cmd, c) ==
    [kind |-> "return", cmd |-> cmd, gen |-> 0, ret |-> c.ret, errno |-> c.errno]

\* the history after an ioctl of a command function that goes on as c says
Traced(call, c) ==
    IF c.next = "return" THEN <<call, Return(call.cmd, c)>> ELSE <<call>>

(***************************************************************************)
(* Probe sequencer: disk_identify and the branch of main on its result.    *)
(***************************************************************************)
\* peripheral_device_type = inquiry_buf[0] & 0x1f
peripheral_device_type(buf) == buf[0] % 32

\* type 0x05 not told apart from a disk
route_atapi_as_disk(type) ==
    IF ~IN_SET(type, {0, 5, 20}) THEN "rejected" ELSE "ata"

\* which IDENTIFY the type allows
route(type) ==
    IF type = 5 THEN "packet"
    ELSE IF ~IN_SET(type, {0, 20}) THEN "rejected"
    ELSE "ata"

\* the check for NUL bytes left out
all_nul_bytes_unchecked(buf) == FALSE

\* "Check if IDENTIFY data is all NUL bytes - if so, bail"
all_nul_bytes(buf) == \A n \in 0..(IDENTIFY_LEN - 1) : buf[n] = 0

\* label out: of disk_identify, and main's if (disk_identify(...) == 0)
disk_identify_return(ret, en, pkt) ==
    /\ di_ret' = <<ret>>
    /\ errno' = en
    /\ is_packet_device' = pkt
    /\ pc' = IF ret = 0 THEN "decode" ELSE "legacy"

\* disk_identify, once INQUIRY succeeded: the type decides what follows
inquiry_route(en) ==
    CASE route(peripheral_device_type(inquiry_buf')) = "packet" ->
           /\ pc' = "identify_packet_v4"
           /\ errno' = en
           /\ UNCHANGED <<di_ret, is_packet_device>>
      [] route(peripheral_device_type(inquiry_buf')) = "rejected" ->
           disk_identify_return(-1, EIO, 0)
      [] OTHER ->
           /\ pc' = "identify_v4"
           /\ errno' = en
           /\ UNCHANGED <<di_ret, is_packet_device>>

\* the return value of disk_scsi_inquiry_command not tested
inquiry_return_unchecked(ret, en) == inquiry_route(en)

\* disk_identify after disk_scsi_inquiry_command returned
inquiry_return(ret, en) ==
    IF ret # 0 THEN disk_identify_return(ret, en, 0) ELSE inquiry_route(en)

\* disk_identify after disk_identify_command returned
identify_return(ret, en) ==
    IF ret # 0
       THEN disk_identify_return(ret, en, 0)
       ELSE IF all_nul_bytes(identify')
            THEN disk_identify_return(-1, EIO, 0)
            ELSE disk_identify_return(ret, en, 0)

\* check_nul_bytes deciding the result alone: a block with a non-zero byte
\* is success
identify_packet_return_nul_check_decides(ret, en) ==
    IF all_nul_bytes(identify')
       THEN disk_identify_return(-1, EIO, 1)
       ELSE disk_identify_return(0, en, 1)

\* disk_identify after disk_identify_packet_device_command returned: ret is
\* not tested before check_nul_bytes
identify_packet_return(ret, en) ==
    IF all_nul_bytes(identify')
       THEN disk_identify_return(-1, EIO, 1)
       ELSE disk_identify_return(ret, en, 1)

(***************************************************************************)
(* Decoder: the fixups main applies to a block the protocol path returned. *)
(***************************************************************************)
\* p[w] of a uint16_t view of the buffer, as the host reads it
HostWord(buf, w) ==
    IF bigEndian THEN buf[2 * w] * 256 + buf[2 * w + 1]
    ELSE buf[2 * w] + 256 * buf[2 * w + 1]

\* p[w] = v, as the host stores it
StoreWord(buf, w, v) ==
    IF bigEndian
    THEN [buf EXCEPT ![2 * w] = v \div 256, ![2 * w + 1] = v % 256]
    ELSE [buf EXCEPT ![2 * w] = v % 256, ![2 * w + 1] = v \div 256]

\* little-endian 16-bit value to host order
le16toh(v) == IF bigEndian THEN (v % 256) * 256 + v \div 256 ELSE v

RECURSIVE disk_identify_get_string_aliased(_, _, _, _)
\* the second byte read only after the first store, from the same memory
disk_identify_get_string_aliased(buf, offset_words, dest, dest_len) ==
    IF dest_len > 0
    THEN LET c1 == buf[offset_words * 2 + 1]
             stored == [buf EXCEPT ![dest] = c1]
             c2 == stored[offset_words * 2]
         IN  disk_identify_get_string_aliased(
                 [stored EXCEPT ![dest + 1] = c2],
                 offset_words + 1, dest + 2, dest_len - 2)
    ELSE buf

RECURSIVE disk_identify_get_string(_, _, _, _)
\* dest is the byte offset in the same buffer that the caller passes as the
\* destination pointer
disk_identify_get_string(buf, offset_words, dest, dest_len) ==
    IF dest_len > 0
    THEN LET c1 == buf[offset_words * 2 + 1]
             c2 == buf[offset_words * 2]
         IN  disk_identify_get_string(
                 [[buf EXCEPT ![dest] = c1] EXCEPT ![dest + 1] = c2],
                 offset_words + 1, dest + 2, dest_len - 2)
    ELSE buf

\* one word more than len bytes exchanged
disk_identify_fixup_string_one_word_more(buf, offset_words, len) ==
    disk_identify_get_string(buf, offset_words, offset_words * 2, len + 2)

\* the destination computed in words, not in bytes
disk_identify_fixup_string_dest_in_words(buf, offset_words, len) ==
    disk_identify_get_string(buf, offset_words, offset_words, len)

\* the string at offset_words exchanged in place
disk_identify_fixup_string(buf, offset_words, len) ==
    disk_identify_get_string(buf, offset_words, offset_words * 2, len)

\* p[offset_words] = le16toh(p[offset_words])
disk_identify_fixup_uint16(buf, offset_words) ==
    StoreWord(buf, offset_words, le16toh(HostWord(buf, offset_words)))

\* the words main passes to disk_identify_fixup_uint16, in its order
FixupWords ==
    <<0, 75, 76, 82, 83, 84, 85, 86, 87, 89, 90, 91, 94, 108, 109, 110, 111,
      128, 217>>

RECURSIVE fixup_words(_, _)
fixup_words(buf, ws) ==
    IF ws = <<>> THEN buf
    ELSE fixup_words(disk_identify_fixup_uint16(buf, Head(ws)), Tail(ws))

\* the fixups of main, in its order
fixup_identify(buf) ==
    fixup_words(
        disk_identify_fixup_string(
            disk_identify_fixup_string(
                disk_identify_fixup_string(buf, 10, 20), 23, 8), 27, 40),
        FixupWords)

(***************************************************************************)
(* struct hd_driveid, as main reads it.                                    *)
(***************************************************************************)
Bytes(buf, from, len) == [i \in 1..len |-> buf[from + i - 1]]

id_serial_no(d) == Bytes(d, 20, 20)
id_fw_rev(d) == Bytes(d, 46, 8)
id_model(d) == Bytes(d, 54, 40)
id_config(d) == HostWord(d, 0)
id_command_set_1(d) == HostWord(d, 82)
id_command_set_2(d) == HostWord(d, 83)
id_cfs_enable_1(d) == HostWord(d, 85)
id_cfs_enable_2(d) == HostWord(d, 86)
id_trseuc(d) == HostWord(d, 89)
id_trsEuc(d) == HostWord(d, 90)
id_CurAPMvalues(d) == HostWord(d, 91)
id_acoustic(d) == HostWord(d, 94)
id_dlf(d) == HostWord(d, 128)

\* identify.wyde[w]
wyde(buf, w) == HostWord(buf, w)

(***************************************************************************)
(* The string helpers main calls (udev-util): C strings are sequences of   *)
(* bytes that end before the first NUL.  The identify strings of the       *)
(* sample blocks are ASCII, so the UTF-8 branches of the helpers are not   *)
(* modelled.                                                               *)
(***************************************************************************)
RECURSIVE strnlen_from(_, _, _)
strnlen_from(str, i, max) ==
    IF i < max /\ str[i + 1] # 0 THEN strnlen_from(str, i + 1, max) ELSE i

strnlen(str, max) == strnlen_from(str, 0, max)

isspace(c) == c = 32 \/ (c >= 9 /\ c <= 13)

RECURSIVE strip_trailing(_, _)
strip_trailing(str, len) ==
    IF len > 0 /\ isspace(str[len]) THEN strip_trailing(str, len - 1) ELSE len

RECURSIVE skip_space(_, _, _)
skip_space(str, i, len) ==
    IF i < len /\ isspace(str[i + 1]) THEN skip_space(str, i + 1, len) ELSE i

RECURSIVE replace_whitespace_loop(_, _, _, _)
replace_whitespace_loop(str, i, len, to) ==
    IF i < len
    THEN IF isspace(str[i + 1])
         THEN LET k == skip_space(str, i, len)
              IN  replace_whitespace_loop(str, k + 1, len,
                                          to \o <<95, str[k + 1]>>)
         ELSE replace_whitespace_loop(str, i + 1, len, Append(to, str[i + 1]))
    ELSE to

\* the string left in to by udev_replace_whitespace(str, to, len)
udev_replace_whitespace(str, len) ==
    LET n == strip_trailing(str, strnlen(str, len))
    IN  replace_whitespace_loop(str, skip_space(str, 0, n), n, <<>>)

\* "#+-.:=@_" and the alphanumerics
whitelisted_char_for_devnode(c) ==
    \/ (c >= 48 /\ c <= 57)
    \/ (c >= 65 /\ c <= 90)
    \/ (c >= 97 /\ c <= 122)
    \/ c \in {35, 43, 45, 46, 58, 61, 64, 95}

RECURSIVE replace_chars_loop(_, _)
replace_chars_loop(str, i) ==
    IF i > Len(str) THEN str
    ELSE IF whitelisted_char_for_devnode(str[i]) THEN replace_chars_loop(str, i + 1)
    ELSE IF str[i] = 92 /\ i < Len(str) /\ str[i + 1] = 120
         THEN replace_chars_loop(str, i + 2)
    ELSE replace_chars_loop([str EXCEPT ![i] = 95], i + 1)

\* udev_replace_chars(str, NULL)
udev_replace_chars(str) == replace_chars_loop(str, 1)

HexDigit(n) == IF n < 10 THEN 48 + n ELSE 87 + n

RECURSIVE encode_loop(_, _, _)
encode_loop(str, i, enc) ==
    IF i > Len(str) THEN enc
    ELSE IF str[i] = 92 \/ ~whitelisted_char_for_devnode(str[i])
         THEN encode_loop(str, i + 1,
                  enc \o <<92, 120, HexDigit(str[i] \div 16), HexDigit(str[i] % 16)>>)
         ELSE encode_loop(str, i + 1, Append(enc, str[i]))

\* the string left in str_enc by encode_devnode_name(str, str_enc, len)
encode_devnode_name(str) == encode_loop(str, 1, <<>>)

\* a char array read as a C string
c_string(arr, max) == SubSeq(arr, 1, strnlen(arr, max))

(***************************************************************************)
(* Output: the lines main prints.  A line is its key, and its value as a   *)
(* word, a number or a string of bytes.                                    *)
(***************************************************************************)
LineS(key, text) == [key |-> key, text |-> text, num |-> 0, bytes |-> <<>>]
LineN(key, n) == [key |-> key, text |-> "", num |-> n, bytes |-> <<>>]
LineB(key, b) == [key |-> key, text |-> "", num |-> 0, bytes |-> b]

When(c, lines) == IF c THEN lines ELSE <<>>

Flag(b) == IF b THEN 1 ELSE 0

\* model, as main leaves it after udev_replace_whitespace/udev_replace_chars
model_of(d) == udev_replace_chars(udev_replace_whitespace(id_model(d), 40))
serial_of(d) == udev_replace_chars(udev_replace_whitespace(id_serial_no(d), 20))
revision_of(d) == udev_replace_chars(udev_replace_whitespace(id_fw_rev(d), 8))
model_enc_of(d) == encode_devnode_name(c_string(id_model(d), 40))

\* the switch without its case 5
type_lines_without_case_5(d) ==
    LET hi == id_config(d) \div 256
    IN  IF Bit(hi, 7)
        THEN CASE hi % 32 = 0 -> <<LineS("ID_TYPE", "cd")>>
               [] hi % 32 = 1 -> <<LineS("ID_TYPE", "tape")>>
               [] hi % 32 = 7 -> <<LineS("ID_TYPE", "optical")>>
               [] OTHER -> <<LineS("ID_TYPE", "generic")>>
        ELSE <<LineS("ID_TYPE", "disk")>>

\* ID_TYPE
type_lines(d) ==
    LET hi == id_config(d) \div 256
    IN  IF Bit(hi, 7)
        THEN CASE hi % 32 = 0 -> <<LineS("ID_TYPE", "cd")>>
               [] hi % 32 = 1 -> <<LineS("ID_TYPE", "tape")>>
               [] hi % 32 = 5 -> <<LineS("ID_TYPE", "cd")>>
               [] hi % 32 = 7 -> <<LineS("ID_TYPE", "optical")>>
               [] OTHER -> <<LineS("ID_TYPE", "generic")>>
        ELSE <<LineS("ID_TYPE", "disk")>>

\* the serial number appended without the test of serial[0]
string_lines_serial_always(d) ==
    <<LineS("ID_BUS", "ata"),
      LineB("ID_MODEL", model_of(d)),
      LineB("ID_MODEL_ENC", model_enc_of(d)),
      LineB("ID_REVISION", revision_of(d)),
      LineB("ID_SERIAL", model_of(d) \o <<95>> \o serial_of(d)),
      LineB("ID_SERIAL_SHORT", serial_of(d))>>

\* ID_MODEL .. ID_SERIAL_SHORT
string_lines(d) ==
    <<LineS("ID_BUS", "ata"),
      LineB("ID_MODEL", model_of(d)),
      LineB("ID_MODEL_ENC", model_enc_of(d)),
      LineB("ID_REVISION", revision_of(d))>>
    \o (IF serial_of(d) # <<>>
        THEN <<LineB("ID_SERIAL", model_of(d) \o <<95>> \o serial_of(d)),
               LineB("ID_SERIAL_SHORT", serial_of(d))>>
        ELSE <<LineB("ID_SERIAL", model_of(d))>>)

\* the _ENABLED value read from the support word
feature_lines_enabled_from_support(name, support, enable, bit) ==
    When(Bit(support, bit),
         <<LineN(name, 1), LineN(name \o "_ENABLED", Flag(Bit(support, bit)))>>)

\* a feature with an _ENABLED sub-flag
feature_lines(name, support, enable, bit) ==
    When(Bit(support, bit),
         <<LineN(name, 1), LineN(name \o "_ENABLED", Flag(Bit(enable, bit)))>>)

\* the level printed whether or not security is enabled
security_lines_level_always(d) ==
    When(Bit(id_command_set_1(d), 1),
         <<LineN("ID_ATA_FEATURE_SET_SECURITY", 1),
           LineN("ID_ATA_FEATURE_SET_SECURITY_ENABLED", Flag(Bit(id_cfs_enable_1(d), 1))),
           LineN("ID_ATA_FEATURE_SET_SECURITY_ERASE_UNIT_MIN", id_trseuc(d) * 2)>>
         \o (IF Bit(id_dlf(d), 8)
             THEN <<LineS("ID_ATA_FEATURE_SET_SECURITY_LEVEL", "maximum")>>
             ELSE <<LineS("ID_ATA_FEATURE_SET_SECURITY_LEVEL", "high")>>)
         \o When(Bit(id_dlf(d), 5),
                 <<LineN("ID_ATA_FEATURE_SET_SECURITY_ENHANCED_ERASE_UNIT_MIN",
                         id_trsEuc(d) * 2)>>)
         \o When(Bit(id_dlf(d), 4), <<LineN("ID_ATA_FEATURE_SET_SECURITY_EXPIRE", 1)>>)
         \o When(Bit(id_dlf(d), 3), <<LineN("ID_ATA_FEATURE_SET_SECURITY_FROZEN", 1)>>)
         \o When(Bit(id_dlf(d), 2), <<LineN("ID_ATA_FEATURE_SET_SECURITY_LOCKED", 1)>>))

\* ID_ATA_FEATURE_SET_SECURITY and its sub-fields
security_lines(d) ==
    When(Bit(id_command_set_1(d), 1),
         <<LineN("ID_ATA_FEATURE_SET_SECURITY", 1),
           LineN("ID_ATA_FEATURE_SET_SECURITY_ENABLED", Flag(Bit(id_cfs_enable_1(d), 1))),
           LineN("ID_ATA_FEATURE_SET_SECURITY_ERASE_UNIT_MIN", id_trseuc(d) * 2)>>
         \o When(Bit(id_cfs_enable_1(d), 1),
                 IF Bit(id_dlf(d), 8)
                 THEN <<LineS("ID_ATA_FEATURE_SET_SECURITY_LEVEL", "maximum")>>
                 ELSE <<LineS("ID_ATA_FEATURE_SET_SECURITY_LEVEL", "high")>>)
         \o When(Bit(id_dlf(d), 5),
                 <<LineN("ID_ATA_FEATURE_SET_SECURITY_ENHANCED_ERASE_UNIT_MIN",
                         id_trsEuc(d) * 2)>>)
         \o When(Bit(id_dlf(d), 4), <<LineN("ID_ATA_FEATURE_SET_SECURITY_EXPIRE", 1)>>)
         \o When(Bit(id_dlf(d), 3), <<LineN("ID_ATA_FEATURE_SET_SECURITY_FROZEN", 1)>>)
         \o When(Bit(id_dlf(d), 2), <<LineN("ID_ATA_FEATURE_SET_SECURITY_LOCKED", 1)>>))

aam_lines(d) ==
    When(Bit(id_command_set_2(d), 9),
         <<LineN("ID_ATA_FEATURE_SET_AAM", 1),
           LineN("ID_ATA_FEATURE_SET_AAM_ENABLED", Flag(Bit(id_cfs_enable_2(d), 9))),
           LineN("ID_ATA_FEATURE_SET_AAM_VENDOR_RECOMMENDED_VALUE", id_acoustic(d) \div 256),
           LineN("ID_ATA_FEATURE_SET_AAM_CURRENT_VALUE", id_acoustic(d) % 256)>>)

\* the current value printed for every device that supports APM
apm_lines_value_unguarded(d) ==
    feature_lines("ID_ATA_FEATURE_SET_APM", id_command_set_2(d), id_cfs_enable_2(d), 3)
    \o When(Bit(id_command_set_2(d), 3),
            <<LineN("ID_ATA_FEATURE_SET_APM_CURRENT_VALUE", id_CurAPMvalues(d) % 256)>>)

\* ID_ATA_FEATURE_SET_APM and the current value
apm_lines(d) ==
    feature_lines("ID_ATA_FEATURE_SET_APM", id_command_set_2(d), id_cfs_enable_2(d), 3)
    \o When(Bit(id_command_set_2(d), 3) /\ Bit(id_cfs_enable_2(d), 3),
            <<LineN("ID_ATA_FEATURE_SET_APM_CURRENT_VALUE", id_CurAPMvalues(d) % 256)>>)

\* ID_ATA_WRITE_CACHE .. ID_ATA_DOWNLOAD_MICROCODE
feature_set_lines(d) ==
    feature_lines("ID_ATA_WRITE_CACHE", id_command_set_1(d), id_cfs_enable_1(d), 5)
    \o feature_lines("ID_ATA_FEATURE_SET_HPA", id_command_set_1(d), id_cfs_enable_1(d), 10)
    \o feature_lines("ID_ATA_FEATURE_SET_PM", id_command_set_1(d), id_cfs_enable_1(d), 3)
    \o security_lines(d)
    \o feature_lines("ID_ATA_FEATURE_SET_SMART", id_command_set_1(d), id_cfs_enable_1(d), 0)
    \o aam_lines(d)
    \o feature_lines("ID_ATA_FEATURE_SET_PUIS", id_command_set_2(d), id_cfs_enable_2(d), 5)
    \o apm_lines(d)
    \o When(Bit(id_command_set_2(d), 0), <<LineN("ID_ATA_DOWNLOAD_MICROCODE", 1)>>)

\* the signal rates printed whether or not the word claims SATA
sata_lines_rates_unguarded(buf) ==
    LET word == wyde(buf, 76)
    IN  When(~IN_SET(word, {0, 65535}), <<LineN("ID_ATA_SATA", 1)>>)
        \o When(Bit(word, 2), <<LineN("ID_ATA_SATA_SIGNAL_RATE_GEN2", 1)>>)
        \o When(Bit(word, 1), <<LineN("ID_ATA_SATA_SIGNAL_RATE_GEN1", 1)>>)

\* word 76 of the identify buffer
sata_lines(buf) ==
    LET word == wyde(buf, 76)
    IN  When(~IN_SET(word, {0, 65535}),
             <<LineN("ID_ATA_SATA", 1)>>
             \o When(Bit(word, 2), <<LineN("ID_ATA_SATA_SIGNAL_RATE_GEN2", 1)>>)
             \o When(Bit(word, 1), <<LineN("ID_ATA_SATA_SIGNAL_RATE_GEN1", 1)>>))

\* the lower end of the verbatim range taken as 0x0400
rotation_lines_from_0x0400(buf) ==
    LET word == wyde(buf, 217)
    IN  IF word = 1 THEN <<LineN("ID_ATA_ROTATION_RATE_RPM", 0)>>
        ELSE IF word >= 1024 /\ word <= 65534
             THEN <<LineN("ID_ATA_ROTATION_RATE_RPM", word)>>
             ELSE <<>>

\* word 217 of the identify buffer
rotation_lines(buf) ==
    LET word == wyde(buf, 217)
    IN  IF word = 1 THEN <<LineN("ID_ATA_ROTATION_RATE_RPM", 0)>>
        ELSE IF word >= 1025 /\ word <= 65534
             THEN <<LineN("ID_ATA_ROTATION_RATE_RPM", word)>>
             ELSE <<>>

\* %x of a 16-bit limb, all four digits
Hex4(w) ==
    <<HexDigit(w \div 4096), HexDigit((w \div 256) % 16),
      HexDigit((w \div 16) % 16), HexDigit(w % 16)>>

\* the four words taken least significant first
wwn_lines_low_word_first(buf) ==
    LET word == wyde(buf, 108)
        wwwn == <<wyde(buf, 111), wyde(buf, 110), wyde(buf, 109), wyde(buf, 108)>>
        hex == <<48, 120>> \o Hex4(wwwn[1]) \o Hex4(wwwn[2]) \o Hex4(wwwn[3])
                   \o Hex4(wwwn[4])
    IN  When(word \div 4096 = 5,
             <<LineB("ID_WWN", hex), LineB("ID_WWN_WITH_EXTENSION", hex)>>)

\* words 108..111: wwwn is kept as its four 16-bit limbs, most significant
\* first (a shift by 16 and an or append a limb); its first hex digit is 5,
\* so PRIx64 prints all sixteen digits
wwn_lines(buf) ==
    LET word == wyde(buf, 108)
        wwwn == <<wyde(buf, 108), wyde(buf, 109), wyde(buf, 110), wyde(buf, 111)>>
        hex == <<48, 120>> \o Hex4(wwwn[1]) \o Hex4(wwwn[2]) \o Hex4(wwwn[3])
                   \o Hex4(wwwn[4])
    IN  When(word \div 4096 = 5,
             <<LineB("ID_WWN", hex), LineB("ID_WWN_WITH_EXTENSION", hex)>>)

\* "from Linux's include/linux/ata.h"
cfa_lines(buf) ==
    When(IN_SET(wyde(buf, 0), {33930, 33866})
            \/ (Bit(wyde(buf, 83), 15) = FALSE /\ Bit(wyde(buf, 83), 14)
                    /\ Bit(wyde(buf, 83), 2)),
         <<LineN("ID_ATA_CFA", 1)>>)

\* the lines main prints from word-indexed reads of a buffer
wyde_lines(buf) ==
    sata_lines(buf) \o rotation_lines(buf) \o wwn_lines(buf) \o cfa_lines(buf)

\* export mode: d is the hd_driveid structure, buf the identify buffer
export_lines(d, buf) ==
    <<LineN("ID_ATA", 1)>> \o type_lines(d) \o string_lines(d)
        \o feature_set_lines(d) \o wyde_lines(buf)

\* plain mode
plain_lines(d) ==
    IF serial_of(d) # <<>>
    THEN <<LineB("", model_of(d) \o <<95>> \o serial_of(d))>>
    ELSE <<LineB("", model_of(d))>>

(***************************************************************************)
(* Sample identify blocks, in the device's format: 16-bit words little     *)
(* endian, strings with the two bytes of each word exchanged.              *)
(***************************************************************************)
PutWord(buf, w, v) == [buf EXCEPT ![2 * w] = v % 256, ![2 * w + 1] = v \div 256]

RECURSIVE PutWords(_, _)
PutWords(buf, ws) ==
    IF ws = <<>> THEN buf
    ELSE PutWords(PutWord(buf, Head(ws)[1], Head(ws)[2]), Tail(ws))

\* the string s, padded with spaces to len bytes, at word w
PutString(buf, w, len, s) ==
    [i \in DOMAIN buf |->
        IF i >= 2 * w /\ i < 2 * w + len
        THEN LET j == (i - 2 * w) + (IF i % 2 = 0 THEN 1 ELSE -1) + 1
             IN  IF j <= Len(s) THEN s[j] ELSE 32
        ELSE buf[i]]

Device(config, serial, fwrev, model, words) ==
    PutWords(
        PutString(PutString(PutString(Zero(IDENTIFY_LEN), 10, 20, serial),
                            23, 8, fwrev), 27, 40, model),
        <<<<0, config>>>> \o words)

Block(k) ==
    CASE k = 0 -> Zero(IDENTIFY_LEN)
      \* a SATA SSD, security enabled, with a WWN
      [] k = 1 ->
           Device(64, <<83, 49>>, <<70, 49>>, <<65, 32, 32, 66>>,
                  << <<75, 31>>, <<76, 6>>, <<82, 1067>>, <<83, 16905>>,
                     <<85, 1059>>, <<86, 520>>, <<89, 5>>, <<90, 7>>,
                     <<91, 16510>>, <<94, 33022>>, <<108, 20481>>,
                     <<109, 8755>>, <<110, 17493>>, <<111, 26231>>,
                     <<128, 297>>, <<217, 1>> >>)
      \* an ATAPI cd drive without serial number
      [] k = 2 ->
           Device(34176, <<>>, <<49, 46, 48>>, <<67, 68, 47, 82>>,
                  << <<76, 65535>>, <<82, 8>>, <<85, 8>>, <<217, 1024>> >>)
      \* a CompactFlash card behind a PATA bridge, 7200 in the rotation word
      [] k = 3 ->
           Device(33930, <<32, 97, 92, 120, 32, 98>>, <<>>, <<67, 70>>,
                  << <<76, 2>>, <<83, 16388>>, <<86, 4>>, <<108, 4096>>,
                     <<217, 7200>> >>)
      [] OTHER ->
           Device(k, <<48 + (k % 10)>>, <<70>>, <<77, 9, 48 + (k % 10)>>,
                  << <<76, 4 * k>>, <<82, k>>, <<83, 32 * k>>, <<85, k>>,
                     <<108, 20480 + k>>, <<217, 1024 + k>> >>)

Blocks == {Block(k) : k \in 0..MaxBlock}

IdentifyTransfers == {[n |-> IDENTIFY_LEN, bytes |-> b] : b \in Blocks}

IdentifyStatusSamples == {<<0, 0, 0>>, <<2, 0, 0>>}

\* byte i is in one of the three string fields of struct hd_driveid
InString(i) ==
    \/ (i >= 20 /\ i < 40)
    \/ (i >= 46 /\ i < 54)
    \/ (i >= 54 /\ i < 94)

\* what HDIO_GET_IDENTITY stores for a device whose identify data is b, on a
\* big-endian (be) or little-endian host: the kernel has put every word in
\* host order and every string in reading order
HostNormalized(be, b) ==
    [i \in 0..(IDENTIFY_LEN - 1) |->
        IF InString(i) \/ be
        THEN b[IF i % 2 = 0 THEN i + 1 ELSE i - 1]
        ELSE b[i]]

\* the structures the legacy call may return, by the host's byte order
LegacyStructures ==
    [be \in BOOLEAN |-> {HostNormalized(be, Block(k)) : k \in 0..MaxLegacyBlock}]

\* what the union identify of main may hold before disk_identify clears it
IdentifyGarbage == {Zero(IDENTIFY_LEN), [i \in 0..(IDENTIFY_LEN - 1) |-> 165]}

(***************************************************************************)
(* What a command function does with the result r of its ioctl: the next   *)
(* step ("v3": submit through sg v3, "return"), and the value and errno it *)
(* returns.  en is errno as the function found it.                         *)
(***************************************************************************)
Returns(ret, en) == [next |-> "return", ret |-> ret, errno |-> en]

RetryV3(r) == [next |-> "v3", ret |-> r.ret, errno |-> r.errno]

\* the sense check of disk_identify_command applied to INQUIRY too
disk_scsi_inquiry_command_v4_sense_checked(r, en) ==
    IF r.ret # 0
    THEN IF try_version_3(r.ret, r.errno) THEN RetryV3(r)
         ELSE Returns(r.ret, r.errno)
    ELSE IF ~status_ok(r.status) \/ ~identify_sense_ok(r.sense) THEN Returns(-1, EIO)
         ELSE Returns(0, en)

\* disk_scsi_inquiry_command, after ioctl(fd, SG_IO, &io_v4)
disk_scsi_inquiry_command_v4(r, en) ==
    IF r.ret # 0
    THEN IF try_version_3(r.ret, r.errno) THEN RetryV3(r)
         ELSE Returns(r.ret, r.errno)
    ELSE IF ~status_ok(r.status) THEN Returns(-1, EIO)
         ELSE Returns(0, en)

\* return 0 right after the check of io_hdr
disk_scsi_inquiry_command_v3_returns_after_own_check(r, st4, en) ==
    IF r.ret # 0 THEN Returns(r.ret, r.errno)
    ELSE IF ~status_ok(r.status) THEN Returns(-1, EIO)
    ELSE Returns(0, en)

\* disk_scsi_inquiry_command, after ioctl(fd, SG_IO, &io_hdr): a success
\* falls through to the check of io_v4, whose fields are st4
disk_scsi_inquiry_command_v3(r, st4, en) ==
    IF r.ret # 0 THEN Returns(r.ret, r.errno)
    ELSE IF ~status_ok(r.status) THEN Returns(-1, EIO)
    ELSE IF ~status_ok(st4) THEN Returns(-1, EIO)
    ELSE Returns(0, en)

\* the status check of disk_scsi_inquiry_command made for IDENTIFY too
disk_identify_command_v4_status_checked(r, en) ==
    IF r.ret # 0
    THEN IF try_version_3(r.ret, r.errno) THEN RetryV3(r)
         ELSE Returns(r.ret, r.errno)
    ELSE IF ~status_ok(r.status) \/ ~identify_sense_ok(r.sense) THEN Returns(-1, EIO)
         ELSE Returns(0, en)

\* disk_identify_command, after ioctl(fd, SG_IO, &io_v4)
disk_identify_command_v4(r, en) ==
    IF r.ret # 0
    THEN IF try_version_3(r.ret, r.errno) THEN RetryV3(r)
         ELSE Returns(r.ret, r.errno)
    ELSE IF ~identify_sense_ok(r.sense) THEN Returns(-1, EIO)
         ELSE Returns(0, en)

\* disk_identify_command, after ioctl(fd, SG_IO, &io_hdr)
disk_identify_command_v3(r, en) ==
    IF r.ret # 0 THEN Returns(r.ret, r.errno)
    ELSE IF ~identify_sense_ok(r.sense) THEN Returns(-1, EIO)
    ELSE Returns(0, en)

\* disk_identify_packet_device_command, after ioctl(fd, SG_IO, &io_v4)
disk_identify_packet_device_command_v4(r, en) ==
    IF r.ret # 0
    THEN IF try_version_3(r.ret, r.errno) THEN RetryV3(r)
         ELSE Returns(r.ret, r.errno)
    ELSE IF ~identify_packet_sense_ok(r.sense) THEN Returns(-1, EIO)
         ELSE Returns(0, en)

\* disk_identify_packet_device_command, after ioctl(fd, SG_IO, &io_hdr)
disk_identify_packet_device_command_v3(r, en) ==
    IF r.ret # 0 THEN Returns(r.ret, r.errno)
    ELSE IF ~identify_packet_sense_ok(r.sense) THEN Returns(-1, EIO)
    ELSE Returns(0, en)

(***************************************************************************)
(* The state machine.                                                      *)
(***************************************************************************)
Init ==
    /\ pc = "getopt"
    /\ bigEndian \in BOOLEAN
    /\ export = FALSE
    /\ exit_code = -1
    /\ usage = FALSE
    /\ out = <<>>
    /\ identify \in IdentifyGarbage
    /\ id = Zero(IDENTIFY_LEN)
    /\ is_packet_device = 0
    /\ inquiry_buf = Zero(INQUIRY_LEN)
    /\ sense = ZeroSense
    /\ io_v4 = <<0, 0, 0>>
    /\ io_hdr = <<0, 0, 0>>
    /\ errno = 0
    /\ node = FALSE
    /\ fd = -1
    /\ trace = <<>>
    /\ di_ret = <<>>
    /\ source = "none"

\* return n from main
Exit(n) ==
    /\ exit_code' = n
    /\ pc' = "exit"

\* main: the getopt_long loop and the test of argv[optind]
Getopt ==
    /\ pc = "getopt"
    /\ \E x \in BOOLEAN, h \in BOOLEAN, n \in BOOLEAN :
         /\ export' = x
         /\ usage' = h
         /\ node' = n
         /\ IF h THEN Exit(0)
            ELSE IF ~n THEN Exit(1)
            ELSE pc' = "open" /\ UNCHANGED exit_code
    /\ UNCHANGED <<bigEndian, out, identify, id, is_packet_device,
                   inquiry_buf, sense, io_v4, io_hdr, errno, trace, di_ret,
                   source, fd>>

\* main: fd = open(node, ...)
Open ==
    /\ pc = "open"
    /\ \E opened \in BOOLEAN :
         IF opened THEN pc' = "disk_identify" /\ fd' = 3 /\ UNCHANGED exit_code
         ELSE Exit(1) /\ UNCHANGED fd
    /\ UNCHANGED <<bigEndian, export, usage, out, identify, id,
                   is_packet_device, inquiry_buf, sense, io_v4, io_hdr,
                   errno, trace, di_ret, source, node>>

\* disk_identify without memzero(out_identify, 512)
DiskIdentifyEnter_without_memzero ==
    /\ pc = "disk_identify"
    /\ inquiry_buf' \in StackGarbage
    /\ pc' = "inquiry_v4"
    /\ UNCHANGED <<bigEndian, export, exit_code, usage, out, identify, id,
                   is_packet_device, sense, io_v4, io_hdr, errno, trace,
                   di_ret, source, node, fd>>

\* disk_identify: its locals and memzero(out_identify, 512)
DiskIdentifyEnter ==
    /\ pc = "disk_identify"
    /\ identify' = Zero(IDENTIFY_LEN)
    /\ inquiry_buf' \in StackGarbage
    /\ pc' = "inquiry_v4"
    /\ UNCHANGED <<bigEndian, export, exit_code, usage, out, id,
                   is_packet_device, sense, io_v4, io_hdr, errno, trace,
                   di_ret, source, node, fd>>

\* the sg v4 submission made again after EINVAL
GoV3_resubmit_v4(next_pc, en) ==
    /\ pc' = pc
    /\ errno' = en
    /\ UNCHANGED <<di_ret, is_packet_device>>

\* what a command function leaves when it goes on to its sg v3 submission
GoV3(next_pc, en) ==
    /\ pc' = next_pc
    /\ errno' = en
    /\ UNCHANGED <<di_ret, is_packet_device>>

\* disk_scsi_inquiry_command: the sg v4 submission
InquiryPrimary ==
    /\ pc = "inquiry_v4"
    /\ \E r \in SgResults(StatusSamples, InquirySenseSamples, InquiryTransfers,
                         FailedStatusSamples) :
         /\ sense' = r.sense
         /\ io_v4' = r.status
         /\ io_hdr' = <<0, 0, 0>>
         /\ inquiry_buf' = Transfer(inquiry_buf, r.data)
         /\ LET c == disk_scsi_inquiry_command_v4(r, errno)
            IN  /\ trace' = trace \o Traced(Call("INQUIRY", 4, r), c)
                /\ IF c.next = "v3" THEN GoV3("inquiry_v3", c.errno)
                   ELSE inquiry_return(c.ret, c.errno)
    /\ UNCHANGED <<bigEndian, export, exit_code, usage, out, identify, id,
                   source, node, fd>>

\* disk_scsi_inquiry_command: the sg v3 submission
InquirySecondary ==
    /\ pc = "inquiry_v3"
    /\ \E r \in SgResults(StatusSamples, InquirySenseSamples, InquiryTransfers,
                         FailedStatusSamples) :
         /\ sense' = r.sense
         /\ io_hdr' = r.status
         /\ inquiry_buf' = Transfer(inquiry_buf, r.data)
         /\ LET c == disk_scsi_inquiry_command_v3(r, io_v4, errno)
            IN  /\ trace' = trace \o Traced(Call("INQUIRY", 3, r), c)
                /\ inquiry_return(c.ret, c.errno)
    /\ UNCHANGED <<bigEndian, export, exit_code, usage, out, identify, id,
                   io_v4, source, node, fd>>

\* disk_identify_command: the sg v4 submission
IdentifyPrimary ==
    /\ pc = "identify_v4"
    /\ \E r \in SgResults(IdentifyStatusSamples, SenseSamples, IdentifyTransfers,
                         {<<0, 0, 0>>}) :
         /\ sense' = r.sense
         /\ io_v4' = r.status
         /\ io_hdr' = <<0, 0, 0>>
         /\ identify' = Transfer(identify, r.data)
         /\ LET c == disk_identify_command_v4(r, errno)
            IN  /\ trace' = trace \o Traced(Call("IDENTIFY", 4, r), c)
                /\ IF c.next = "v3" THEN GoV3("identify_v3", c.errno)
                   ELSE identify_return(c.ret, c.errno)
    /\ UNCHANGED <<bigEndian, export, exit_code, usage, out, id, inquiry_buf,
                   source, node, fd>>

\* disk_identify_command: the sg v3 submission
IdentifySecondary ==
    /\ pc = "identify_v3"
    /\ \E r \in SgResults(IdentifyStatusSamples, SenseSamples, IdentifyTransfers,
                         {<<0, 0, 0>>}) :
         /\ sense' = r.sense
         /\ io_hdr' = r.status
         /\ identify' = Transfer(identify, r.data)
         /\ LET c == disk_identify_command_v3(r, errno)
            IN  /\ trace' = trace \o Traced(Call("IDENTIFY", 3, r), c)
                /\ identify_return(c.ret, c.errno)
    /\ UNCHANGED <<bigEndian, export, exit_code, usage, out, id, inquiry_buf,
                   io_v4, source, node, fd>>

\* disk_identify_packet_device_command: the sg v4 submission
IdentifyPacketPrimary ==
    /\ pc = "identify_packet_v4"
    /\ \E r \in SgResults(IdentifyStatusSamples, SenseSamples, IdentifyTransfers,
                         {<<0, 0, 0>>}) :
         /\ sense' = r.sense
         /\ io_v4' = r.status
         /\ io_hdr' = <<0, 0, 0>>
         /\ identify' = Transfer(identify, r.data)
         /\ LET c == disk_identify_packet_device_command_v4(r, errno)
            IN  /\ trace' = trace \o Traced(Call("IDENTIFY_PACKET", 4, r), c)
                /\ IF c.next = "v3" THEN GoV3("identify_packet_v3", c.errno)
                   ELSE identify_packet_return(c.ret, c.errno)
    /\ UNCHANGED <<bigEndian, export, exit_code, usage, out, id, inquiry_buf,
                   source, node, fd>>

\* disk_identify_packet_device_command: the sg v3 submission
IdentifyPacketSecondary ==
    /\ pc = "identify_packet_v3"
    /\ \E r \in SgResults(IdentifyStatusSamples, SenseSamples, IdentifyTransfers,
                         {<<0, 0, 0>>}) :
         /\ sense' = r.sense
         /\ io_hdr' = r.status
         /\ identify' = Transfer(identify, r.data)
         /\ LET c == disk_identify_packet_device_command_v3(r, errno)
            IN  /\ trace' = trace \o Traced(Call("IDENTIFY_PACKET", 3, r), c)
                /\ identify_packet_return(c.ret, c.errno)
    /\ UNCHANGED <<bigEndian, export, exit_code, usage, out, id, inquiry_buf,
                   io_v4, source, node, fd>>

\* main: the fixups and memcpy(&id, identify.byte, sizeof id)
Decode ==
    /\ pc = "decode"
    /\ identify' = fixup_identify(identify)
    /\ id' = identify'
    /\ source' = "protocol"
    /\ pc' = "output"
    /\ UNCHANGED <<bigEndian, export, exit_code, usage, out,
                   is_packet_device, inquiry_buf, sense, io_v4, io_hdr,
                   errno, trace, di_ret, node, fd>>

\* the failure of the legacy call not acted upon
legacy_failed_ignored ==
    /\ pc' = "output"
    /\ UNCHANGED <<exit_code, id, source>>

\* main, when ioctl(fd, HDIO_GET_IDENTITY, &id) failed
legacy_failed ==
    /\ Exit(2)
    /\ UNCHANGED <<id, source>>

\* main: "If this fails, then try HDIO_GET_IDENTITY"
LegacyIdentify ==
    /\ pc = "legacy"
    /\ \E r \in {[ret |-> 0, errno |-> 0], [ret |-> -1, errno |-> 25]},
          d \in LegacyStructures[bigEndian] :
         /\ trace' = Append(trace, Call("HDIO_GET_IDENTITY", 0, r))
         /\ IF r.ret # 0
            THEN /\ legacy_failed
                 /\ errno' = r.errno
            ELSE /\ id' = d
                 /\ source' = "legacy"
                 /\ pc' = "output"
                 /\ UNCHANGED <<exit_code, errno>>
    /\ UNCHANGED <<bigEndian, export, usage, out, identify, is_packet_device,
                   inquiry_buf, sense, io_v4, io_hdr, di_ret, node, fd>>

\* the lines main prints, given its id, its identify buffer and its mode
print_lines(d, buf, x) == IF x THEN export_lines(d, buf) ELSE plain_lines(d)

\* main: the printf calls and return 0
Output ==
    /\ pc = "output"
    /\ out' = print_lines(id, identify, export)
    /\ Exit(0)
    /\ UNCHANGED <<bigEndian, export, usage, identify, id, is_packet_device,
                   inquiry_buf, sense, io_v4, io_hdr, errno, trace, di_ret,
                   source, node, fd>>

Next ==
    \/ Getopt
    \/ Open
    \/ DiskIdentifyEnter
    \/ InquiryPrimary
    \/ InquirySecondary
    \/ IdentifyPrimary
    \/ IdentifySecondary
    \/ IdentifyPacketPrimary
    \/ IdentifyPacketSecondary
    \/ Decode
    \/ LegacyIdentify
    \/ Output

Spec == Init /\ [][Next]_vars

\* the steps of main up to the point where id is filled or main has returned
Probe ==
    \/ Getopt
    \/ Open
    \/ DiskIdentifyEnter
    \/ InquiryPrimary
    \/ InquirySecondary
    \/ IdentifyPrimary
    \/ IdentifySecondary
    \/ IdentifyPacketPrimary
    \/ IdentifyPacketSecondary
    \/ LegacyIdentify

\* Decode and Output as they move pc: they test nothing but pc and choose
\* nothing, so at their position they can always be taken
DecodeAndOutput ==
    \/ pc = "decode" /\ pc' = "output"
    \/ pc = "output" /\ pc' = "exit"

\* main is one sequential thread and every call it makes returns (SG_IO
\* within COMMAND_TIMEOUT): a step that can be taken is taken
FairSpec == Spec /\ WF_vars(Probe) /\ WF_pc(DecodeAndOutput)

(***************************************************************************)
(* The decoder and the output stage alone: main from the point where       *)
(* disk_identify has returned 0, for a wider set of identify blocks than   *)
(* the device of Spec answers with.  A block is a sample block with some   *)
(* of its words replaced.                                                  *)
(***************************************************************************)
Words16 == 0..(Pow2(16) - 1)

\* word 217: both ends of each range the source tests, and every
\* RotationStride-th value between
RotationWords ==
    {0, 1, 2, 3, 1023, 1024, 1025, 1026, 5400, 7200, 32767, 32768, 65533,
     65534, 65535}
        \cup {v \in Words16 : v % RotationStride = 0}

\* word 76: the two values that mean "not SATA", and every combination of
\* bits 1 and 2 with the bits around them set or clear
SataWords ==
    {0, 65535, 65534, 1, 32768}
        \cup {g + n : g \in {0, 2, 4, 6}, n \in {0, 1, 8, 65529}}

\* words 108..111
WwnWords ==
    {<<a, r[1], r[2], r[3]>> :
        a \in {20480, 20481, 24575, 20479, 24576, 5, 80, 1280, 0, 65535, 53248},
        r \in {<<0, 0, 0>>, <<8755, 17493, 26231>>, <<65535, 65535, 65535>>,
               <<1, 32768, 255>>}}

\* word 0: every value of its high byte, and the two CompactFlash signatures
ConfigWords == {hi * 256 : hi \in 0..255} \cup {33930, 33866}

\* a support or enable word: no bit, each single bit of bits, all of bits,
\* all of the others, all sixteen
FlagWords(bits) ==
    LET all == LET S[B \in SUBSET bits] ==
                       IF B = {} THEN 0
                       ELSE LET b == CHOOSE x \in B : TRUE
                            IN  Pow2(b) + S[B \ {b}]
               IN  S[bits]
    IN  {0, all, 65535 - all, 65535} \cup {Pow2(b) : b \in bits}

\* word 128: every value of the bits main tests (2..5 and 8) with the other
\* bits clear, and the other bits alone, and all sixteen
LockWords ==
    {4 * c + 256 * m : c \in 0..15, m \in 0..1} \cup {65535 - 316, 65535}

\* the replacements, each a sequence of <<word, value>>; the last one sets
\* words main does not read, next to those it reads
Overrides ==
    {<< <<217, v>> >> : v \in RotationWords}
        \cup {<< <<76, v>> >> : v \in SataWords}
        \cup {<< <<108, w[1]>>, <<109, w[2]>>, <<110, w[3]>>, <<111, w[4]>> >> :
                 w \in WwnWords}
        \cup {<< <<0, v>> >> : v \in ConfigWords}
        \cup {<< <<82, s>>, <<85, e>> >> :
                 s \in FlagWords({0, 1, 3, 5, 10}), e \in FlagWords({0, 1, 3, 5, 10})}
        \cup {<< <<83, s>>, <<86, e>> >> :
                 s \in FlagWords({0, 3, 5, 9}), e \in FlagWords({0, 3, 5, 9})}
        \cup {<< <<82, 2>>, <<85, e>>, <<89, t[1]>>, <<90, t[2]>>, <<128, l>> >> :
                 e \in {0, 2}, t \in {<<0, 7>>, <<5, 32768>>, <<65535, 0>>},
                 l \in LockWords}
        \cup {<< <<82, s>>, <<85, e>>, <<89, 5>>, <<90, 7>>, <<128, l>> >> :
                 s \in {0, 65533}, e \in {0, 2}, l \in {0, 65535}}
        \cup {<< <<1, 16383>>, <<9, 258>>, <<20, 513>>, <<22, 4>>, <<47, 32784>>,
                 <<74, 1>>, <<77, 772>>, <<81, 40>>, <<84, 16739>>, <<87, 16739>>,
                 <<88, 127>>, <<92, 65534>>, <<107, 5>>, <<112, 4660>>,
                 <<129, 22136>>, <<216, 2>>, <<218, 3>>, <<255, 42405>> >>}

\* serial numbers and models as the device stores them: empty, blank, with
\* blanks inside and around, with characters udev_replace_chars replaces,
\* of full length
SerialSamples ==
    {<<>>, <<83, 49>>, <<32, 32, 83, 32, 32, 49>>, <<47, 36>>,
     [i \in 1..20 |-> 48 + (i % 10)]}

ModelSamples ==
    {<<>>, <<77>>, <<65, 32, 32, 66>>, <<67, 68, 47, 82>>,
     [i \in 1..40 |-> 65 + (i % 26)]}

\* a string field of NUL bytes at word w
NulString(buf, w, len) ==
    [i \in DOMAIN buf |-> IF i >= 2 * w /\ i < 2 * w + len THEN 0 ELSE buf[i]]

StringBlocks ==
    LET B == {Device(64, s, <<70, 49>>, m, <<>>) :
                 s \in SerialSamples, m \in ModelSamples}
    IN  B \cup {NulString(b, 10, 20) : b \in B}

\* the blocks the decoder is run on
DecoderBlocks ==
    {PutWords(Block(k), o) : k \in 1..MaxOverridden, o \in Overrides}
        \cup {Block(k) : k \in 1..MaxBlock}
        \cup StringBlocks

\* main, when disk_identify(fd, identify.byte, &is_packet_device) has
\* returned 0 through sg v4 for a device of type 0x00
DecoderInit ==
    /\ pc = "decode"
    /\ bigEndian \in BOOLEAN
    /\ export \in BOOLEAN
    /\ exit_code = -1
    /\ usage = FALSE
    /\ out = <<>>
    /\ identify \in DecoderBlocks
    /\ id = Zero(IDENTIFY_LEN)
    /\ is_packet_device = 0
    /\ inquiry_buf = InquiryData(0)
    /\ sense = DescriptorSense
    /\ io_v4 = <<0, 0, 0>>
    /\ io_hdr = <<0, 0, 0>>
    /\ errno = 0
    /\ node = TRUE
    /\ fd = 3
    /\ trace = LET ok == [ret |-> 0, errno |-> 0]
               IN  Traced(Call("INQUIRY", 4, ok), Returns(0, 0))
                      \o Traced(Call("IDENTIFY", 4, ok), Returns(0, 0))
    /\ di_ret = <<0>>
    /\ source = "none"

DecoderNext ==
    \/ Decode
    \/ Output

DecoderSpec == DecoderInit /\ [][DecoderNext]_vars

(***************************************************************************)
(* Properties.  They read the history and the buffers with the helpers     *)
(* below, not with the operators of the program.                           *)
(***************************************************************************)
Events == 1..Len(trace)

IsIoctl(e, cmd) == e.kind = "ioctl" /\ e.cmd = cmd

IsReturn(e, cmd) == e.kind = "return" /\ e.cmd = cmd

Submitted(cmd) == \E i \in Events : IsIoctl(trace[i], cmd)

IdentifyCmds == {"IDENTIFY", "IDENTIFY_PACKET"}

InquirySucceeded == \E i \in Events : IsReturn(trace[i], "INQUIRY") /\ trace[i].ret = 0

\* low 5 bits of byte 0 of the INQUIRY response buffer
ResponseType == inquiry_buf[0] % 32

IsAllZero(buf) == \A i \in DOMAIN buf : buf[i] = 0

LegacyCalls == {i \in Events : IsIoctl(trace[i], "HDIO_GET_IDENTITY")}

C2_InquiryFirstThenLegacy ==
    /\ trace # <<>> => IsIoctl(trace[1], "INQUIRY")
    /\ \A i \in Events :
         (trace[i].kind = "ioctl" /\ trace[i].cmd \in IdentifyCmds)
            => \E j \in 1..(i - 1) :
                  IsReturn(trace[j], "INQUIRY") /\ trace[j].ret = 0
    /\ \A j \in Events :
         (IsReturn(trace[j], "INQUIRY") /\ trace[j].ret # 0)
            => IF j = Len(trace)
               THEN pc = "legacy" /\ exit_code = -1
               ELSE IsIoctl(trace[j + 1], "HDIO_GET_IDENTITY")

\* INQUIRY failed and the legacy call delivered the data
C2_Witness ==
    /\ \E j \in Events : IsReturn(trace[j], "INQUIRY") /\ trace[j].ret # 0
    /\ source = "legacy"
    /\ exit_code = 0

\* C3: after an IDENTIFY command of either variant returned success, a block
\* of 512 zero bytes makes disk_identify fail with EIO and the legacy call is
\* next, and a block with a non-zero byte makes disk_identify return 0.
C3_AllZeroBlockIsFailure ==
    (/\ pc \in {"decode", "legacy"}
     /\ trace # <<>>
     /\ trace[Len(trace)].kind = "return"
     /\ trace[Len(trace)].cmd \in IdentifyCmds
     /\ trace[Len(trace)].ret = 0)
    => IF IsAllZero(identify)
       THEN di_ret = <<-1>> /\ errno = EIO /\ pc = "legacy"
       ELSE di_ret = <<0>> /\ pc = "decode"

\* IDENTIFY PACKET DEVICE returned success with an all-zero block
C3_Witness ==
    /\ pc = "legacy"
    /\ trace # <<>>
    /\ IsReturn(trace[Len(trace)], "IDENTIFY_PACKET")
    /\ trace[Len(trace)].ret = 0
    /\ IsAllZero(identify)

\* C4: the legacy call is made once if disk_identify failed and never if it
\* succeeded; if it fails too, main returns 2 and calls nothing more; main
\* returns 1 only without a node or an open device, and 0 only with identify
\* data obtained or after --help.
C4_LegacyOnceAndExitCodes ==
    /\ Cardinality(LegacyCalls) <= 1
    /\ LegacyCalls # {} => di_ret \notin {<<>>, <<0>>}
    /\ (di_ret \notin {<<>>, <<0>>} /\ pc \in {"output", "exit"})
          => Cardinality(LegacyCalls) = 1
    /\ \A i \in LegacyCalls :
          trace[i].ret # 0 => exit_code = 2 /\ pc = "exit" /\ i = Len(trace)
    /\ exit_code = 2 => \E i \in LegacyCalls : trace[i].ret # 0
    /\ exit_code = 1 => (~node \/ fd < 0) /\ trace = <<>>
    /\ exit_code = 0 => usage \/ source \in {"protocol", "legacy"}
    /\ pc = "exit" <=> exit_code \in {0, 1, 2}

\* both the protocol path and the legacy call failed
C4_Witness ==
    /\ exit_code = 2
    /\ Cardinality(LegacyCalls) = 1
    /\ di_ret = <<-1>>

\* C5: a run that ends with exit code 1 or 2 has printed no fact line, and a
\* fact line is printed only once id was filled by the protocol path or by
\* the legacy call.
C5_NoPartialOutput ==
    /\ exit_code \in {1, 2} => out = <<>>
    /\ out # <<>> => source \in {"protocol", "legacy"} /\ exit_code = 0

\* IDENTIFY DEVICE was tried, everything failed, nothing was printed
C5_Witness ==
    /\ exit_code = 2
    /\ Submitted("IDENTIFY")
    /\ out = <<>>

\* the position at which a command submits through sg v3
V3Position(cmd) ==
    CASE cmd = "INQUIRY" -> "inquiry_v3"
      [] cmd = "IDENTIFY" -> "identify_v3"
      [] cmd = "IDENTIFY_PACKET" -> "identify_packet_v3"

\* the command function returned right after event i, and with the failure
\* of that ioctl if it failed
ReturnedAfter(i) ==
    /\ i < Len(trace)
    /\ IsReturn(trace[i + 1], trace[i].cmd)
    /\ trace[i].ret # 0
          => trace[i + 1].ret = trace[i].ret /\ trace[i + 1].errno = trace[i].errno

\* C6: for each of the three commands the sg v3 submission is made if and
\* only if the sg v4 submission failed with EINVAL; any other sg v4 failure
\* and any sg v3 failure is returned at once; a command makes at most two
\* submissions.
C6_SecondaryOnlyAfterEinval ==
    /\ \A i \in Events :
         (trace[i].kind = "ioctl" /\ trace[i].gen = 4)
            => IF trace[i].ret # 0 /\ trace[i].errno = 22
               THEN IF i = Len(trace)
                    THEN pc = V3Position(trace[i].cmd)
                    ELSE IsIoctl(trace[i + 1], trace[i].cmd) /\ trace[i + 1].gen = 3
               ELSE ReturnedAfter(i)
    /\ \A i \in Events :
         (trace[i].kind = "ioctl" /\ trace[i].gen = 3)
            => /\ i > 1
               /\ IsIoctl(trace[i - 1], trace[i].cmd)
               /\ trace[i - 1].gen = 4
               /\ trace[i - 1].ret # 0
               /\ trace[i - 1].errno = 22
               /\ ReturnedAfter(i)
    /\ \A cmd \in {"INQUIRY"} \cup IdentifyCmds :
         Cardinality({i \in Events : IsIoctl(trace[i], cmd)}) <= 2

\* IDENTIFY DEVICE went through sg v3 and failed there
C6_Witness ==
    \E i \in Events :
        IsIoctl(trace[i], "IDENTIFY") /\ trace[i].gen = 3 /\ trace[i].ret # 0

\* the sense encodings, byte by byte
DescriptorFormat == sense[0] = 114 /\ sense[8] = 9 /\ sense[9] = 12

FixedFormat == sense[0] = 112 /\ sense[12] = 0 /\ sense[13] = 29

\* C7: an IDENTIFY command whose submission succeeded returns 0 only with
\* descriptor format sense (0x72, 0x09, 0x0C) or, for IDENTIFY DEVICE alone,
\* fixed format sense (0x70, 0x00, 0x1D); with any other sense it returns -1
\* with EIO.
C7_SenseDecidesIdentify ==
    \A i \in Events :
        (/\ i > 1
         /\ trace[i].kind = "return"
         /\ trace[i].cmd \in IdentifyCmds
         /\ trace[i - 1].ret = 0)
        => LET expected ==
                   IF trace[i].cmd = "IDENTIFY"
                   THEN DescriptorFormat \/ FixedFormat
                   ELSE DescriptorFormat
           IN  /\ trace[i].ret = 0 => expected
               /\ ~expected => trace[i].ret = -1 /\ trace[i].errno = 5

\* fixed format sense on a submitted IDENTIFY PACKET DEVICE: the command failed
C7_Witness ==
    /\ FixedFormat
    /\ \E i \in Events :
         /\ i > 1
         /\ IsReturn(trace[i], "IDENTIFY_PACKET")
         /\ trace[i - 1].ret = 0
         /\ trace[i].ret = -1

\* C8: INQUIRY returns 0 only if the three status fields of the interface
\* that executed it are zero; with a non-zero field it returns -1 with EIO,
\* through sg v4 and through sg v3.
C8_InquiryStatusFields ==
    (~Submitted("IDENTIFY") /\ ~Submitted("IDENTIFY_PACKET"))
    => \A i \in Events :
         (/\ i > 1
          /\ IsReturn(trace[i], "INQUIRY")
          /\ trace[i - 1].ret = 0)
         => LET st == IF trace[i - 1].gen = 4 THEN io_v4 ELSE io_hdr
            IN  /\ trace[i].ret = 0 => st = <<0, 0, 0>>
                /\ st # <<0, 0, 0>> => trace[i].ret = -1 /\ trace[i].errno = 5

\* INQUIRY ran through sg v3 and came back with a host status
C8_Witness ==
    /\ ~Submitted("IDENTIFY")
    /\ ~Submitted("IDENTIFY_PACKET")
    /\ io_hdr = <<0, 7, 0>>
    /\ \E i \in Events :
         /\ i > 1
         /\ IsReturn(trace[i], "INQUIRY")
         /\ trace[i - 1].gen = 3
         /\ trace[i - 1].ret = 0
         /\ trace[i].ret = -1

\* C9: the transfer buffer is all zero whenever it is handed to a submission:
\* inquiry_buf at both INQUIRY submissions, the identify buffer at the sg v4
\* and at the sg v3 submission of either IDENTIFY command.
C9_BufferZeroBeforeEachAttempt ==
    /\ pc \in {"inquiry_v4", "inquiry_v3"} => IsAllZero(inquiry_buf)
    /\ pc \in {"identify_v4", "identify_v3", "identify_packet_v4",
               "identify_packet_v3"} => IsAllZero(identify)

\* what export mode prints for the structure d when d came from the protocol
\* path: there the identify buffer is the block d was copied from
ProtocolExport(d) == export_lines(d, d)

\* C10: in export mode the lines printed for an identify structure are those
\* the protocol path prints for it, whichever source filled the structure.
C10_SourceIrrelevant ==
    (pc = "exit" /\ exit_code = 0 /\ ~usage /\ export)
        => out = ProtocolExport(id)

(***************************************************************************)
(* The lines printed, read key by key.                                     *)
(***************************************************************************)
\* main returned 0 after printing in export mode
Exported == pc = "exit" /\ exit_code = 0 /\ ~usage /\ export

\* identify.wyde[w], composed from the two bytes as the host orders them
WordRead(w) ==
    IF bigEndian THEN 256 * identify[2 * w] + identify[2 * w + 1]
    ELSE identify[2 * w] + 256 * identify[2 * w + 1]

LinesOf(key) == SelectSeq(out, LAMBDA l : l.key = key)

Emitted(key) == LinesOf(key) # <<>>

\* the key is printed once, with the number n
Reports(key, n) == Len(LinesOf(key)) = 1 /\ LinesOf(key)[1].num = n

\* C11: for every value of word 217 of the identify buffer, export mode
\* prints ID_ATA_ROTATION_RATE_RPM=0 for the value 0x0001, the value itself
\* for 0x0401..0xFFFE, and no rotation rate key for any other value.
C11_RotationRateMapping ==
    Exported =>
        LET word == WordRead(217)
        IN  /\ word = 1 => Reports("ID_ATA_ROTATION_RATE_RPM", 0)
            /\ (word >= 1025 /\ word <= 65534)
                  => Reports("ID_ATA_ROTATION_RATE_RPM", word)
            /\ (word = 0 \/ (word >= 2 /\ word <= 1024) \/ word = 65535)
                  => ~Emitted("ID_ATA_ROTATION_RATE_RPM")

\* the first value reported verbatim, decoded on a big-endian host
C11_Witness ==
    /\ Exported
    /\ source = "protocol"
    /\ bigEndian
    /\ WordRead(217) = 1025
    /\ Reports("ID_ATA_ROTATION_RATE_RPM", 1025)

\* the value of a lower-case hexadecimal digit
DigitValue(c) == IF c >= 97 THEN c - 87 ELSE c - 48

\* a printed "0x" and sixteen hexadecimal digits
IsHex64(b) ==
    /\ Len(b) = 18
    /\ b[1] = 48
    /\ b[2] = 120
    /\ \A i \in 3..18 : (b[i] >= 48 /\ b[i] <= 57) \/ (b[i] >= 97 /\ b[i] <= 102)

\* bits 16*(3-k) .. 16*(3-k)+15 of the printed number, k = 0 the top ones
Limb(b, k) ==
    4096 * DigitValue(b[4 * k + 3]) + 256 * DigitValue(b[4 * k + 4])
        + 16 * DigitValue(b[4 * k + 5]) + DigitValue(b[4 * k + 6])

\* C12: export mode prints ID_WWN and ID_WWN_WITH_EXTENSION if and only if
\* bits 15:12 of word 108 of the identify buffer are 0x5; the number printed
\* is word 108, word 109, word 110, word 111 from the most significant 16
\* bits to the least, and both keys carry the same number.
C12_WwnFromFourWords ==
    Exported =>
        /\ Emitted("ID_WWN") <=> (WordRead(108) \div 4096 = 5)
        /\ Emitted("ID_WWN_WITH_EXTENSION") <=> Emitted("ID_WWN")
        /\ Emitted("ID_WWN") =>
              /\ Len(LinesOf("ID_WWN")) = 1
              /\ Len(LinesOf("ID_WWN_WITH_EXTENSION")) = 1
              /\ LinesOf("ID_WWN_WITH_EXTENSION")[1].bytes = LinesOf("ID_WWN")[1].bytes
              /\ IsHex64(LinesOf("ID_WWN")[1].bytes)
              /\ \A k \in 0..3 :
                    Limb(LinesOf("ID_WWN")[1].bytes, k) = WordRead(108 + k)

\* words (0x5001, 0x2233, 0x4455, 0x6677) printed as 0x5001223344556677
C12_Witness ==
    /\ Exported
    /\ source = "protocol"
    /\ <<WordRead(108), WordRead(109), WordRead(110), WordRead(111)>>
          = <<20481, 8755, 17493, 26231>>
    /\ Emitted("ID_WWN")
    /\ LinesOf("ID_WWN")[1].bytes
          = <<48, 120, 53, 48, 48, 49, 50, 50, 51, 51, 52, 52, 53, 53, 54, 54, 55, 55>>

\* bit n of a 16-bit word, by division
BitOf(word, n) == (word \div (2 ^ n)) % 2 = 1

\* C13: with word 76 of the identify buffer 0x0000 or 0xFFFF export mode
\* prints neither ID_ATA_SATA nor a signal rate key; with any other value it
\* prints ID_ATA_SATA=1, ID_ATA_SATA_SIGNAL_RATE_GEN1=1 iff bit 1 is set and
\* ID_ATA_SATA_SIGNAL_RATE_GEN2=1 iff bit 2 is set; no signal rate key is
\* printed without ID_ATA_SATA.
C13_SataKeys ==
    Exported =>
        LET word == WordRead(76)
        IN  /\ word \in {0, 65535}
                  => /\ ~Emitted("ID_ATA_SATA")
                     /\ ~Emitted("ID_ATA_SATA_SIGNAL_RATE_GEN1")
                     /\ ~Emitted("ID_ATA_SATA_SIGNAL_RATE_GEN2")
            /\ word \notin {0, 65535}
                  => /\ Reports("ID_ATA_SATA", 1)
                     /\ IF BitOf(word, 1)
                        THEN Reports("ID_ATA_SATA_SIGNAL_RATE_GEN1", 1)
                        ELSE ~Emitted("ID_ATA_SATA_SIGNAL_RATE_GEN1")
                     /\ IF BitOf(word, 2)
                        THEN Reports("ID_ATA_SATA_SIGNAL_RATE_GEN2", 1)
                        ELSE ~Emitted("ID_ATA_SATA_SIGNAL_RATE_GEN2")
            /\ (Emitted("ID_ATA_SATA_SIGNAL_RATE_GEN1")
                   \/ Emitted("ID_ATA_SATA_SIGNAL_RATE_GEN2"))
                  => Emitted("ID_ATA_SATA")

\* word 76 is 0xFFFF, with bits 1 and 2 set, and nothing about SATA is printed
C13_Witness ==
    /\ Exported
    /\ source = "protocol"
    /\ WordRead(76) = 65535
    /\ ~Emitted("ID_ATA_SATA")
    /\ ~Emitted("ID_ATA_SATA_SIGNAL_RATE_GEN2")

\* a 16-bit member of struct hd_driveid at word w, composed from the two
\* bytes as the host orders them
IdWord(w) ==
    IF bigEndian THEN 256 * id[2 * w] + id[2 * w + 1]
    ELSE id[2 * w] + 256 * id[2 * w + 1]

\* bits 8..12 of a word
Bits8To12(word) == (word \div 256) % 32

\* C14: export mode prints exactly one ID_TYPE: disk when bit 15 of the
\* configuration word is clear; when it is set, cd for bits 8-12 equal to 0,
\* tape for 1, cd for 5, optical for 7 and generic for every other value.
C14_OneDeviceType ==
    Exported =>
        /\ Len(LinesOf("ID_TYPE")) = 1
        /\ LinesOf("ID_TYPE")[1].text =
              IF ~BitOf(IdWord(0), 15) THEN "disk"
              ELSE CASE Bits8To12(IdWord(0)) = 0 -> "cd"
                     [] Bits8To12(IdWord(0)) = 1 -> "tape"
                     [] Bits8To12(IdWord(0)) = 5 -> "cd"
                     [] Bits8To12(IdWord(0)) = 7 -> "optical"
                     [] OTHER -> "generic"

\* an ATAPI configuration word with bits 13 and 14 set and type 5: cd
C14_Witness ==
    /\ Exported
    /\ source = "protocol"
    /\ IdWord(0) = 58624
    /\ LinesOf("ID_TYPE") # <<>>
    /\ LinesOf("ID_TYPE")[1].text = "cd"

\* the features with an _ENABLED key: the word of struct hd_driveid with the
\* support bit, the word with the enable bit, and the bit
Features ==
    {[key |-> "ID_ATA_WRITE_CACHE", support |-> 82, enable |-> 85, bit |-> 5],
     [key |-> "ID_ATA_FEATURE_SET_HPA", support |-> 82, enable |-> 85, bit |-> 10],
     [key |-> "ID_ATA_FEATURE_SET_PM", support |-> 82, enable |-> 85, bit |-> 3],
     [key |-> "ID_ATA_FEATURE_SET_SECURITY", support |-> 82, enable |-> 85, bit |-> 1],
     [key |-> "ID_ATA_FEATURE_SET_SMART", support |-> 82, enable |-> 85, bit |-> 0],
     [key |-> "ID_ATA_FEATURE_SET_AAM", support |-> 83, enable |-> 86, bit |-> 9],
     [key |-> "ID_ATA_FEATURE_SET_PUIS", support |-> 83, enable |-> 86, bit |-> 5],
     [key |-> "ID_ATA_FEATURE_SET_APM", support |-> 83, enable |-> 86, bit |-> 3]}

\* C15: for each feature with an enabled sub-flag, export mode prints the
\* feature key (=1) and its _ENABLED key if and only if the support bit is
\* set, _ENABLED is 1 exactly when the bit at the same position of the paired
\* enable word is set, and an enable bit without its support bit prints
\* neither key.
C15_FeatureFlags ==
    Exported =>
        \A f \in Features :
            IF BitOf(IdWord(f.support), f.bit)
            THEN /\ Reports(f.key, 1)
                 /\ Reports(f.key \o "_ENABLED",
                            IF BitOf(IdWord(f.enable), f.bit) THEN 1 ELSE 0)
            ELSE /\ ~Emitted(f.key)
                 /\ ~Emitted(f.key \o "_ENABLED")

\* every enable bit of the first pair set, no support bit: nothing printed;
\* the second pair supports and enables APM
C15_Witness ==
    /\ Exported
    /\ source = "protocol"
    /\ IdWord(82) = 0
    /\ IdWord(85) = 65535
    /\ ~Emitted("ID_ATA_WRITE_CACHE")
    /\ ~Emitted("ID_ATA_WRITE_CACHE_ENABLED")
    /\ Reports("ID_ATA_FEATURE_SET_APM_ENABLED", 1)

SecuritySubKeys ==
    {"ID_ATA_FEATURE_SET_SECURITY_ERASE_UNIT_MIN",
     "ID_ATA_FEATURE_SET_SECURITY_LEVEL",
     "ID_ATA_FEATURE_SET_SECURITY_ENHANCED_ERASE_UNIT_MIN",
     "ID_ATA_FEATURE_SET_SECURITY_EXPIRE",
     "ID_ATA_FEATURE_SET_SECURITY_FROZEN",
     "ID_ATA_FEATURE_SET_SECURITY_LOCKED"}

\* the key is printed once, with the word text
ReportsText(key, text) == Len(LinesOf(key)) = 1 /\ LinesOf(key)[1].text = text

\* the flag key is printed (=1) if the bit of word 128 is set, else not
LockFlag(key, bit) ==
    IF BitOf(IdWord(128), bit) THEN Reports(key, 1) ELSE ~Emitted(key)

\* what holds of the sub-fields other than the level
SecurityTimesAndFlags ==
    IF BitOf(IdWord(82), 1)
    THEN /\ Reports("ID_ATA_FEATURE_SET_SECURITY_ERASE_UNIT_MIN", 2 * IdWord(89))
         /\ IF BitOf(IdWord(128), 5)
            THEN Reports("ID_ATA_FEATURE_SET_SECURITY_ENHANCED_ERASE_UNIT_MIN",
                         2 * IdWord(90))
            ELSE ~Emitted("ID_ATA_FEATURE_SET_SECURITY_ENHANCED_ERASE_UNIT_MIN")
         /\ LockFlag("ID_ATA_FEATURE_SET_SECURITY_EXPIRE", 4)
         /\ LockFlag("ID_ATA_FEATURE_SET_SECURITY_FROZEN", 3)
         /\ LockFlag("ID_ATA_FEATURE_SET_SECURITY_LOCKED", 2)
    ELSE \A k \in SecuritySubKeys : ~Emitted(k)

\* C16: the security sub-fields are printed only when bit 1 of the first
\* support word is set; then the erase unit time is word 89 times 2, and the
\* level (maximum or high), the enhanced erase time, expire, frozen and locked
\* are each fixed by its own bit of word 128 (8, 5, 4, 3, 2) and by nothing
\* else.
C16_SecuritySubfields ==
    Exported =>
        /\ SecurityTimesAndFlags
        /\ BitOf(IdWord(82), 1)
              => ReportsText("ID_ATA_FEATURE_SET_SECURITY_LEVEL",
                             IF BitOf(IdWord(128), 8) THEN "maximum" ELSE "high")

\* C16, amended: as C16, but the level is printed only when security is also
\* enabled (bit 1 of the first enable word), and is then maximum or high by
\* bit 8 of word 128; the enhanced erase time printed for bit 5 is word 90
\* times 2.
C16_SecuritySubfieldsLevelWhenEnabled ==
    Exported =>
        /\ SecurityTimesAndFlags
        /\ BitOf(IdWord(82), 1) =>
              IF BitOf(IdWord(85), 1)
              THEN ReportsText("ID_ATA_FEATURE_SET_SECURITY_LEVEL",
                               IF BitOf(IdWord(128), 8) THEN "maximum" ELSE "high")
              ELSE ~Emitted("ID_ATA_FEATURE_SET_SECURITY_LEVEL")

\* security supported and not enabled, bit 8 of word 128 set: no level, and
\* the other sub-fields as their bits say
C16_Witness ==
    /\ Exported
    /\ source = "protocol"
    /\ BitOf(IdWord(82), 1)
    /\ ~BitOf(IdWord(85), 1)
    /\ IdWord(128) = 256 + 32 + 4
    /\ ~Emitted("ID_ATA_FEATURE_SET_SECURITY_LEVEL")
    /\ Reports("ID_ATA_FEATURE_SET_SECURITY_ENHANCED_ERASE_UNIT_MIN", 65536)
    /\ Reports("ID_ATA_FEATURE_SET_SECURITY_LOCKED", 1)

\* a 16-bit word of a buffer, composed as the host orders its two bytes
HostWordOf(b, w) ==
    IF bigEndian THEN 256 * b[2 * w] + b[2 * w + 1]
    ELSE b[2 * w] + 256 * b[2 * w + 1]

\* the numeric words main reads
NumericWords == {0, 76, 82, 83, 85, 86, 89, 90, 91, 94, 108, 109, 110, 111, 128, 217}

\* first and last byte of serial_no, fw_rev and model in struct hd_driveid
StringFields == {<<20, 39>>, <<46, 53>>, <<54, 93>>}

\* what main reads of a fixed-up block: the three strings, byte by byte, and
\* the numeric words
DecodedFields(b) ==
    [serial |-> [i \in 20..39 |-> b[i]],
     fw_rev |-> [i \in 46..53 |-> b[i]],
     model |-> [i \in 54..93 |-> b[i]],
     words |-> [w \in NumericWords |-> HostWordOf(b, w)]]

FixedUpStrings == {<<10, 20>>, <<23, 8>>, <<27, 40>>}

\* b is a with the two bytes of every word of the field exchanged
PairsExchanged(a, b, f) ==
    \A k \in 0..((f[2] \div 2) - 1) :
        /\ b[2 * f[1] + 2 * k] = a[2 * f[1] + 2 * k + 1]
        /\ b[2 * f[1] + 2 * k + 1] = a[2 * f[1] + 2 * k]

\* C18: for each string field (serial at word 10, 20 bytes; firmware
\* revision at word 23, 8 bytes; model at word 27, 40 bytes), one application
\* of disk_identify_fixup_string moves byte 2k+1 of the field to position 2k
\* and byte 2k to position 2k+1 and leaves every byte outside the field as it
\* was, and a second application gives back the original bytes; the block
\* main has fixed up has the pairs of all three fields exchanged.
C18_StringFixupIsInvolutiveSwap ==
    [][pc = "decode" =>
          /\ \A f \in FixedUpStrings :
                LET once == disk_identify_fixup_string(identify, f[1], f[2])
                IN  /\ PairsExchanged(identify, once, f)
                    /\ \A i \in DOMAIN identify :
                          (i < 2 * f[1] \/ i >= 2 * f[1] + f[2])
                             => once[i] = identify[i]
                    /\ disk_identify_fixup_string(once, f[1], f[2]) = identify
          /\ \A f \in FixedUpStrings : PairsExchanged(identify, identify', f)
      ]_vars

\* a model stored by the device as " A", "B " was fixed up to "A  B"
C18_Witness ==
    /\ source = "protocol"
    /\ pc = "output"
    /\ <<identify[54], identify[55], identify[56], identify[57]>> = <<65, 32, 32, 66>>
    /\ disk_identify_fixup_string(identify, 27, 40)[54] = 32
    /\ disk_identify_fixup_string(identify, 27, 40)[57] = 32

\* the key is printed once, with the string of bytes b
ReportsBytes(key, b) == Len(LinesOf(key)) = 1 /\ LinesOf(key)[1].bytes = b

\* main returned 0 after printing in plain mode
Plain == pc = "exit" /\ exit_code = 0 /\ ~usage /\ ~export

\* model and serial as main holds them when it prints: cleaned by
\* udev_replace_whitespace and udev_replace_chars
CleanModel == model_of(id)

CleanSerial == serial_of(id)

\* C19: in export mode ID_SERIAL is the model, '_' and the serial when the
\* cleaned serial is not empty, and ID_SERIAL_SHORT (the serial) is then
\* printed too; otherwise ID_SERIAL is the model alone and ID_SERIAL_SHORT is
\* not printed.  In plain mode exactly one line is printed, without a key:
\* model, '_' and serial when the serial is not empty, the model alone
\* otherwise.
C19_OutputComposition ==
    /\ Exported =>
          /\ ReportsBytes("ID_MODEL", CleanModel)
          /\ IF CleanSerial # <<>>
             THEN /\ ReportsBytes("ID_SERIAL", CleanModel \o <<95>> \o CleanSerial)
                  /\ ReportsBytes("ID_SERIAL_SHORT", CleanSerial)
             ELSE /\ ReportsBytes("ID_SERIAL", CleanModel)
                  /\ ~Emitted("ID_SERIAL_SHORT")
    /\ Plain =>
          /\ Len(out) = 1
          /\ out[1].key = ""
          /\ out[1].bytes = IF CleanSerial # <<>>
                            THEN CleanModel \o <<95>> \o CleanSerial
                            ELSE CleanModel

\* plain mode for a device whose serial number field is NUL bytes: the model
\* "A_B" alone
C19_Witness ==
    /\ Plain
    /\ source = "protocol"
    /\ id[20] = 0
    /\ CleanSerial = <<>>
    /\ out = <<[key |-> "", text |-> "", num |-> 0, bytes |-> <<65, 95, 66>>]>>

\* the ioctls made so far for the commands in cmds
CallsOf(cmds) == {i \in Events : trace[i].kind = "ioctl" /\ trace[i].cmd \in cmds}

\* C20: every probe ends, with exit code 0, 1 or 2, whatever the device
\* answers, and at no point has it made more than two INQUIRY submissions,
\* more than two submissions of one IDENTIFY variant (and none of the other),
\* more than one HDIO_GET_IDENTITY call, or more than five calls in all.
C20_TerminatesWithinFiveCalls ==
    /\ [](/\ Cardinality(CallsOf({"INQUIRY"})) <= 2
          /\ Cardinality(CallsOf({"IDENTIFY", "IDENTIFY_PACKET"})) <= 2
          /\ Cardinality(CallsOf({"HDIO_GET_IDENTITY"})) <= 1
          /\ Cardinality(CallsOf({"INQUIRY", "IDENTIFY", "IDENTIFY_PACKET",
                                   "HDIO_GET_IDENTITY"})) <= 5
          /\ Len(trace) = Cardinality(CallsOf({"INQUIRY", "IDENTIFY",
                                               "IDENTIFY_PACKET",
                                               "HDIO_GET_IDENTITY"}))
                             + Cardinality({i \in Events : trace[i].kind = "return"}))
    /\ <>(pc = "exit" /\ exit_code \in {0, 1, 2})

\* a probe that ended after five calls: both submissions of INQUIRY and of
\* IDENTIFY DEVICE, then the legacy call
C20_Witness ==
    /\ pc = "exit"
    /\ Cardinality(CallsOf({"INQUIRY"})) = 2
    /\ Cardinality(CallsOf({"IDENTIFY"})) = 2
    /\ Cardinality(CallsOf({"HDIO_GET_IDENTITY"})) = 1

(***************************************************************************)
(* Two blocks compared: what main prints for a block other than the one    *)
(* the run decodes.                                                        *)
(***************************************************************************)
\* the block b with the two bytes of word w replaced
Varied(b, w, lo, hi) ==
    [i \in DOMAIN b |-> IF i = 2 * w THEN lo ELSE IF i = 2 * w + 1 THEN hi ELSE b[i]]

\* blocks that differ from b in word w alone: in its first byte, in its
\* second byte
VariantsOf(b, w) ==
    {Varied(b, w, (b[2 * w] + 1) % 256, b[2 * w + 1]),
     Varied(b, w, b[2 * w], 255 - b[2 * w + 1])}

\* what export mode prints for a block b as the device sent it
ExportOf(b) == LET d == fixup_identify(b) IN export_lines(d, d)

\* word w of a block as the device sent it (little endian)
DeviceWord(b, w) == b[2 * w] + 256 * b[2 * w + 1]

\* the block says APM is supported and enabled (bit 3 of words 83 and 86)
ApmOn(b) == BitOf(DeviceWord(b, 83), 3) /\ BitOf(DeviceWord(b, 86), 3)

\* the export output of the run is that of the block it decoded
RunPrintsExportOfBlock ==
    [][(pc = "output" /\ export) => out' = export_lines(id, identify)]_vars

\* C21: words 75 and 91 of the identify block do not influence the export
\* output: a block that differs from the decoded one only in word 75, or only
\* in word 91, gives the same export lines.
C21_Words75And91WithoutInfluence ==
    /\ RunPrintsExportOfBlock
    /\ [][(pc = "decode" /\ export) =>
             \A w \in {75, 91} :
                 \A alt \in VariantsOf(identify, w) :
                     ExportOf(alt) = export_lines(id', identify')
         ]_vars

\* C21, amended: word 75 does not influence the export output, and neither
\* does the high byte of word 91; the low byte of word 91 is printed as
\* ID_ATA_FEATURE_SET_APM_CURRENT_VALUE when APM is supported and enabled, so a
\* block that differs only in word 91 gives the same export lines if and only
\* if APM is not both supported and enabled or the low bytes are equal.
C21_Word75WithoutInfluenceWord91LowByteIsApmValue ==
    /\ RunPrintsExportOfBlock
    /\ [][(pc = "decode" /\ export) =>
             /\ \A alt \in VariantsOf(identify, 75) :
                   ExportOf(alt) = export_lines(id', identify')
             /\ \A alt \in VariantsOf(identify, 91) :
                   (ExportOf(alt) = export_lines(id', identify'))
                      <=> (~ApmOn(identify) \/ alt[182] = identify[182])
         ]_vars

\* APM supported and enabled, the low byte of word 91 printed as the current
\* value, and a different low byte would have been printed instead
C21_Witness ==
    /\ Exported
    /\ source = "protocol"
    /\ BitOf(IdWord(83), 3)
    /\ BitOf(IdWord(86), 3)
    /\ Reports("ID_ATA_FEATURE_SET_APM_CURRENT_VALUE", IdWord(91) % 256)
    /\ IdWord(91) % 256 = 126
    /\ export_lines(Varied(id, 75, 0, 0), Varied(identify, 75, 0, 0)) = out
    /\ export_lines(Varied(id, 91, 0, 0), Varied(identify, 91, 0, 0)) # out

(***************************************************************************)
(* One submission of INQUIRY, read from the step that made it.             *)
(***************************************************************************)
\* the ioctl the step appended to the history
StepCall == trace'[Len(trace) + 1]

\* what the command function did after that ioctl, as the history and the
\* position of main show it
StepOutcome ==
    IF Len(trace') = Len(trace) + 2
    THEN [next |-> "return", ret |-> trace'[Len(trace) + 2].ret,
          errno |-> trace'[Len(trace) + 2].errno]
    ELSE [next |-> IF pc' \in {"inquiry_v3", "identify_v3", "identify_packet_v3"}
                   THEN "v3" ELSE "none",
          ret |-> StepCall.ret, errno |-> StepCall.errno]

\* the result of the step's ioctl, with the sense bytes s in place of those
\* the device returned
StepResultWithSense(st, s) ==
    [ret |-> StepCall.ret, errno |-> StepCall.errno, status |-> st, sense |-> s,
     data |-> [n |-> 0, bytes |-> Zero(INQUIRY_LEN)]]

\* C22: the outcome of INQUIRY (what it returns, the errno it leaves, whether
\* it goes on to sg v3) does not depend on the sense bytes: an execution that
\* differs from the one made only in the sense bytes returned, through sg v4
\* or through sg v3, has the same outcome.
C22_InquiryIgnoresSense ==
    [][(pc = "inquiry_v4" \/ pc = "inquiry_v3") =>
          \A s \in SenseSamples :
              StepOutcome =
                  IF pc = "inquiry_v4"
                  THEN disk_scsi_inquiry_command_v4(
                           StepResultWithSense(io_v4', s), errno)
                  ELSE disk_scsi_inquiry_command_v3(
                           StepResultWithSense(io_hdr', s), io_v4, errno)
      ]_vars

\* INQUIRY returned 0 with sense bytes that make either IDENTIFY fail, and
\* disk_identify went on to IDENTIFY DEVICE
C22_Witness ==
    /\ pc = "identify_v4"
    /\ sense = ZeroSense
    /\ trace # <<>>
    /\ IsReturn(trace[Len(trace)], "INQUIRY")
    /\ trace[Len(trace)].ret = 0

\* the returns of the IDENTIFY commands recorded so far
IdentifyReturns ==
    {i \in Events : trace[i].kind = "return" /\ trace[i].cmd \in IdentifyCmds}

\* C23: a failed IDENTIFY PACKET DEVICE makes disk_identify fail whatever the
\* buffer holds: disk_identify returns the command's non-zero value when the
\* block has a non-zero byte and -1 when it is all zero; disk_identify
\* returns 0 only when an IDENTIFY command returned 0 and the block has a
\* non-zero byte; the is_packet_device flag it reports is 1 exactly when
\* INQUIRY succeeded with type 0x05, also when the packet command failed.
C23_PacketFailureIsFailure ==
    /\ \A i \in Events :
          (IsReturn(trace[i], "IDENTIFY_PACKET") /\ trace[i].ret # 0)
             => /\ di_ret = IF IsAllZero(identify) THEN <<-1>> ELSE <<trace[i].ret>>
                /\ di_ret # <<0>>
                /\ is_packet_device = 1
                /\ pc \in {"legacy", "output", "exit"}
                /\ source # "protocol"
    /\ di_ret = <<0>>
          => /\ \E i \in IdentifyReturns : trace[i].ret = 0
             /\ ~IsAllZero(identify)
    /\ di_ret # <<>>
          => (is_packet_device = 1 <=> (InquirySucceeded /\ ResponseType = 5))
    /\ di_ret = <<>> => is_packet_device = 0

\* IDENTIFY PACKET DEVICE transferred a block with non-zero bytes and failed
\* on its sense data: disk_identify failed, with the flag set, and main went
\* on to the legacy call
C23_Witness ==
    /\ pc = "legacy"
    /\ trace # <<>>
    /\ IsReturn(trace[Len(trace)], "IDENTIFY_PACKET")
    /\ trace[Len(trace)].ret = -1
    /\ ~IsAllZero(identify)
    /\ di_ret = <<-1>>
    /\ is_packet_device = 1

\* the function of the source that handles the ioctl made at position p
AfterIoctl(p, r, en) ==
    CASE p = "identify_v4" -> disk_identify_command_v4(r, en)
      [] p = "identify_v3" -> disk_identify_command_v3(r, en)
      [] p = "identify_packet_v4" -> disk_identify_packet_device_command_v4(r, en)
      [] p = "identify_packet_v3" -> disk_identify_packet_device_command_v3(r, en)

\* C24: the result of an IDENTIFY command of either variant depends only on
\* the return value of the submission and on the sense bytes: a submission
\* that differs from the one made only in the device, transport and driver
\* status fields has the same outcome, and a command whose submission
\* succeeded returns 0 if and only if the sense bytes match, whatever the
\* status fields hold.
C24_IdentifyIgnoresStatusFields ==
    [][(pc = "identify_v4" \/ pc = "identify_v3" \/ pc = "identify_packet_v4"
           \/ pc = "identify_packet_v3") =>
          /\ \A st \in StatusSamples :
                StepOutcome = AfterIoctl(pc, StepResultWithSense(st, sense'), errno)
          /\ StepCall.ret = 0 =>
                /\ StepOutcome.next = "return"
                /\ StepOutcome.ret = 0 <=>
                      IF StepCall.cmd = "IDENTIFY"
                      THEN (DescriptorFormat \/ FixedFormat)'
                      ELSE DescriptorFormat'
      ]_vars

\* IDENTIFY DEVICE came back with a device status of 2 and matching sense
\* bytes: the command and disk_identify returned 0
C24_Witness ==
    /\ pc = "decode"
    /\ io_v4 = <<2, 0, 0>>
    /\ DescriptorFormat
    /\ trace # <<>>
    /\ IsReturn(trace[Len(trace)], "IDENTIFY")
    /\ trace[Len(trace)].ret = 0
    /\ di_ret = <<0>>

\* the keys main prints from word-indexed reads of the identify buffer
WydeKeys ==
    {"ID_ATA_SATA", "ID_ATA_SATA_SIGNAL_RATE_GEN1", "ID_ATA_SATA_SIGNAL_RATE_GEN2",
     "ID_ATA_ROTATION_RATE_RPM", "ID_WWN", "ID_WWN_WITH_EXTENSION", "ID_ATA_CFA"}

\* disk_identify returned without having submitted an IDENTIFY command
FailedBeforeIdentify ==
    /\ di_ret # <<>>
    /\ ~Submitted("IDENTIFY")
    /\ ~Submitted("IDENTIFY_PACKET")

\* C25: when disk_identify fails before it submits an IDENTIFY command
\* (INQUIRY failed or the type was rejected) the identify buffer is 512 zero
\* bytes on its return and stays so; if the legacy call then succeeds, export
\* mode prints none of ID_ATA_SATA, the signal rate keys,
\* ID_ATA_ROTATION_RATE_RPM, ID_WWN, ID_WWN_WITH_EXTENSION and ID_ATA_CFA,
\* whatever the legacy structure holds.
C25_LegacyAfterEarlyFailureHasNoWydeKeys ==
    FailedBeforeIdentify =>
        /\ di_ret # <<0>>
        /\ IsAllZero(identify)
        /\ (Exported /\ source = "legacy") => \A k \in WydeKeys : ~Emitted(k)

\* the type was rejected, the legacy call returned a structure whose words
\* say SATA, non-rotating, with a WWN, and none of it was printed, while the
\* keys read from the structure were
C25_Witness ==
    /\ FailedBeforeIdentify
    /\ InquirySucceeded
    /\ Exported
    /\ source = "legacy"
    /\ IdWord(76) = 6
    /\ IdWord(217) = 1
    /\ IdWord(108) \div 4096 = 5
    /\ Emitted("ID_ATA_WRITE_CACHE")
    /\ \A k \in WydeKeys : ~Emitted(k)

(***************************************************************************)
(* The fixups one by one: a fixup is the word it starts at, the number of  *)
(* bytes it covers, and whether it is a string fixup.                      *)
(***************************************************************************)
StringFixup(w, len) == [string |-> TRUE, word |-> w, len |-> len]

WordFixup(w) == [string |-> FALSE, word |-> w, len |-> 2]

\* the numeric words fixed up, in the order of the calls
NumericFixupWords ==
    <<0, 75, 76, 82, 83, 84, 85, 86, 87, 89, 90, 91, 94, 108, 109, 110, 111,
      128, 217>>

\* the calls main makes, in its order
SourceOrder ==
    <<StringFixup(10, 20), StringFixup(23, 8), StringFixup(27, 40)>>
        \o [i \in 1..Len(NumericFixupWords) |-> WordFixup(NumericFixupWords[i])]

FixupSet == {SourceOrder[i] : i \in 1..Len(SourceOrder)}

\* the bytes of the buffer a fixup covers
RangeOf(f) == (2 * f.word)..(2 * f.word + f.len - 1)

ApplyFixup(f, b) ==
    IF f.string THEN disk_identify_fixup_string(b, f.word, f.len)
    ELSE disk_identify_fixup_uint16(b, f.word)

RECURSIVE ApplyInOrder(_, _)
\* a fixup that changes nothing (a numeric fixup on a little-endian host)
\* needs no new buffer
ApplyInOrder(order, b) ==
    IF order = <<>> THEN b
    ELSE LET fixed == ApplyFixup(Head(order), b)
         IN  IF fixed = b THEN ApplyInOrder(Tail(order), b)
             ELSE ApplyInOrder(Tail(order), fixed)

Reversed(s) == [i \in 1..Len(s) |-> s[Len(s) + 1 - i]]

\* the order of main backwards, the numeric words before the strings, and
\* the order of main started at its twelfth call
OtherOrders ==
    {Reversed(SourceOrder),
     SubSeq(SourceOrder, 4, Len(SourceOrder)) \o SubSeq(SourceOrder, 1, 3),
     SubSeq(SourceOrder, 12, Len(SourceOrder)) \o SubSeq(SourceOrder, 1, 11)}

\* b with the bytes at the positions in S taken from src
Patch(b, src, S) == [i \in DOMAIN b |-> IF i \in S THEN src[i] ELSE b[i]]

RECURSIVE PatchFrom(_, _, _, _)
\* b with the len bytes from position from on taken from src
PatchFrom(b, src, from, len) ==
    IF len = 0 THEN b
    ELSE PatchFrom([b EXCEPT ![from] = src[from]], src, from + 1, len - 1)

\* b with the bytes a fixup covers taken from src
PatchRange(b, src, f) == PatchFrom(b, src, 2 * f.word, f.len)

\* the bytes some fixup covers
Covered == UNION {RangeOf(f) : f \in FixupSet}

\* a buffer that shares no more than chance with a block
Filler == [i \in 0..(IDENTIFY_LEN - 1) |-> 90]

\* C26: the three string fixups and the nineteen numeric fixups cover
\* pairwise disjoint byte ranges; each fixup reads and writes only the bytes
\* of its own range (on any other buffer with the same bytes there it leaves
\* the same bytes there and nothing else changed); the fixups applied in
\* another order give the buffer main's order gives; and every byte outside
\* the ranges is after decoding what it was before.
C26_FixupsDisjointAndOrderFree ==
    [][pc = "decode" =>
          /\ \A f \in FixupSet : \A g \in FixupSet :
                f # g => RangeOf(f) \cap RangeOf(g) = {}
          /\ \A f \in FixupSet :
                LET once == ApplyFixup(f, identify)
                IN  /\ PatchRange(identify, once, f) = once
                    /\ ApplyFixup(f, PatchRange(Filler, identify, f))
                          = PatchRange(Filler, once, f)
          /\ ApplyInOrder(SourceOrder, identify) = identify'
          /\ \A order \in OtherOrders : ApplyInOrder(order, identify) = identify'
          /\ Patch(identify, identify', Covered) = identify'
      ]_vars

\* on a big-endian host a block was decoded in which string and numeric
\* fixups changed bytes (serial, words 75 and 82), and which has non-zero
\* bytes outside every range (words 9, 20, 77 and 255)
C26_Witness ==
    /\ source = "protocol"
    /\ pc = "output"
    /\ bigEndian
    /\ identify[20] # identify[21]
    /\ identify[150] # identify[151]
    /\ identify[164] # identify[165]
    /\ <<identify[18], identify[19]>> = <<2, 1>>
    /\ <<identify[40], identify[41]>> = <<1, 2>>
    /\ <<identify[154], identify[155]>> = <<4, 3>>
    /\ <<identify[510], identify[511]>> = <<165, 165>>

\* the returns of INQUIRY recorded so far that followed a successful ioctl
InquiryReturnsAfterSuccess ==
    {i \in Events : i > 1 /\ IsReturn(trace[i], "INQUIRY") /\ trace[i - 1].ret = 0}

\* C27: INQUIRY returns 0 only if the device, transport and driver status
\* of the sg v4 structure are all zero, also when the command was executed
\* through sg v3: after an sg v3 submission that succeeded with all-zero
\* status the fields of the sg v4 structure are checked, and INQUIRY returns
\* 0 if they are zero and -1 with EIO if one is not.
C27_InquiryChecksPrimaryStatusAfterSecondary ==
    (~Submitted("IDENTIFY") /\ ~Submitted("IDENTIFY_PACKET"))
    => \A i \in InquiryReturnsAfterSuccess :
          /\ trace[i].ret = 0 => io_v4 = <<0, 0, 0>>
          /\ (trace[i - 1].gen = 3 /\ io_hdr = <<0, 0, 0>>)
                => IF io_v4 = <<0, 0, 0>>
                   THEN trace[i].ret = 0
                   ELSE trace[i].ret = -1 /\ trace[i].errno = 5

\* sg v4 was rejected with EINVAL and left a device status of 2 in its
\* structure; sg v3 succeeded with all-zero status; INQUIRY returned -1 with
\* EIO and main went on to the legacy call
C27_Witness ==
    /\ pc = "legacy"
    /\ io_v4 = <<2, 0, 0>>
    /\ io_hdr = <<0, 0, 0>>
    /\ Len(trace) = 3
    /\ IsIoctl(trace[1], "INQUIRY") /\ trace[1].gen = 4 /\ trace[1].errno = 22
    /\ IsIoctl(trace[2], "INQUIRY") /\ trace[2].gen = 3 /\ trace[2].ret = 0
    /\ IsReturn(trace[3], "INQUIRY") /\ trace[3].ret = -1 /\ trace[3].errno = 5

====
